---- MODULE Spec2Model ----
(***************************************************************************)
(* eduroam-idp: the per-day worker pool, the single aggregation consumer,  *)
(* the driver (main) and the exporter, as one state machine.               *)
(*                                                                         *)
(* Time is counted in ticks; one calendar day is DayTicks ticks, so a      *)
(* time t lies on day DayOf(t) at time-of-day TodOf(t).  A tick is the     *)
(* resolution of the clock: 00:00:00.000000000 is tick 0 of a day and      *)
(* 23:59:59.999999999 is its last tick.                                    *)
(***************************************************************************)
EXTENDS Integers, Sequences, FiniteSets, Bags, TLC

\* ---------------------------------------------------------------- bounds
NumWorkers == 2        \* size of the worker pool (workersCount)
MaxDays == 1           \* largest relative-days parameter tried
MaxFeed == 3           \* entries delivered to the aggregator on its own
MaxExports == 2        \* exports repeated on one settled Result
MaxBatches == 2        \* ProcessResults calls merged into one Result
ResultChanCap == 2     \* capacity of resultChan (ResultChanBuffer, scaled)
DayTicks == 2          \* ticks per calendar day
Today == 3             \* the day on which the program runs

Workers == 1..NumWorkers

\* ------------------------------------------------------------------ time
DayOf(t) == t \div DayTicks
TodOf(t) == t % DayTicks
Now == Today * DayTicks + 1

\* time.Date(y, m, d, 0, 0, 0, 0, loc) of t
StartOfDay(t) == DayOf(t) * DayTicks
\* time.Date(y, m, d, 23, 59, 59, 999999999, loc) of t
EndOfDay(t) == DayOf(t) * DayTicks + (DayTicks - 1)

\* -------------------------------------------------------------- calendar
\* Days are numbered from 1970-01-01 (day 0) in the proleptic Gregorian
\* calendar of package time.
\* isLeapYear without the century rule
isLeapYear_Div4Only(year) == year % 4 = 0

\* isLeapYear
isLeapYear(year) == year % 4 = 0 /\ (year % 100 # 0 \/ year % 400 = 0)

DaysInMonth(y, m) ==
    IF m = 2 THEN (IF isLeapYear(y) THEN 29 ELSE 28)
    ELSE IF m \in {4, 6, 9, 11} THEN 30 ELSE 31

\* Leap years among the years 1..k
LeapsThrough(k) == (k \div 4) - (k \div 100) + (k \div 400)
DaysBeforeYear(y) ==
    365 * (y - 1970) + LeapsThrough(y - 1) - LeapsThrough(1969)
RECURSIVE DaysBeforeMonth(_, _)
DaysBeforeMonth(y, m) ==
    IF m = 1 THEN 0 ELSE DaysBeforeMonth(y, m - 1) + DaysInMonth(y, m - 1)

\* time.Date(y, m, d, ...), as a day number.  A day past the end of the
\* month runs on into the next month, as time.Date normalizes it.
DayNumber(y, m, d) == DaysBeforeYear(y) + DaysBeforeMonth(y, m) + (d - 1)

\* The element of a one-element set.  {e(x) : x \in {v}} names the value v
\* as x in e.
The(S) == CHOOSE x \in S : TRUE

\* t.Year(), t.Month(), t.Day() of day number n
YearOf(n) ==
    CHOOSE y \in (1970 + (n \div 366) - 1)..(1970 + (n \div 366) + 2) :
        DaysBeforeYear(y) <= n /\ n < DaysBeforeYear(y + 1)
MonthOf(n) ==
    The({CHOOSE m \in 1..12 :
             /\ DaysBeforeMonth(y, m) <= n - DaysBeforeYear(y)
             /\ n - DaysBeforeYear(y) < DaysBeforeMonth(y, m) + DaysInMonth(y, m) :
         y \in {YearOf(n)}})
DayOfMonth(n) ==
    The({n - DaysBeforeYear(y) - DaysBeforeMonth(y, m) + 1 :
         y \in {YearOf(n)}, m \in {MonthOf(n)}})

\* t.AddDate(years, 0, days): the calendar date is moved and normalized,
\* the time of day is kept
AddDate(t, years, days) ==
    The({DayNumber(YearOf(n) + years, MonthOf(n), DayOfMonth(n) + days) * DayTicks
             + TodOf(t) :
         n \in {DayOf(t)}})

\* The zero time.Time (January 1, year 1, 00:00:00 UTC)
ZeroTime == DayNumber(1, 1, 1) * DayTicks

\* ---------------------------------------------------------------- tokens
\* A command-line argument is a sequence of characters.
Digits == <<"0", "1", "2", "3", "4", "5", "6", "7", "8", "9">>
IsDigit(c) == \E i \in 1..10 : Digits[i] = c
DigitVal(c) == (CHOOSE i \in 1..10 : Digits[i] = c) - 1

\* strings.HasPrefix(s, "y"), strings.HasSuffix(s, "y")
HasPrefixY(s) == Len(s) >= 1 /\ s[1] = "y"
HasSuffixY(s) == Len(s) >= 1 /\ s[Len(s)] = "y"

RECURSIVE DecimalValue(_)
DecimalValue(s) ==
    IF s = <<>> THEN 0
    ELSE 10 * DecimalValue(SubSeq(s, 1, Len(s) - 1)) + DigitVal(s[Len(s)])

\* strconv.Atoi: an optional sign and one or more decimal digits (the
\* tokens tried are too short to overflow an int)
Atoi(s) ==
    LET signed == Len(s) >= 1 /\ s[1] \in {"+", "-"}
        ds == IF signed THEN Tail(s) ELSE s
    IN  IF ds = <<>> \/ \E i \in 1..Len(ds) : ~IsDigit(ds[i])
        THEN [ok |-> FALSE, v |-> 0]
        ELSE [ok |-> TRUE,
              v |-> IF signed /\ s[1] = "-" THEN 0 - DecimalValue(ds)
                    ELSE DecimalValue(ds)]

\* time.Parse(SpecificDateFormat, s) with the layout "02-01-2006": two
\* digits of day, two of month, four of year, nothing else; the month and
\* the day of the month must exist.  The result is midnight of that date.
ParseSpecificDate(s) ==
    LET shape == /\ Len(s) = 10
                 /\ s[3] = "-" /\ s[6] = "-"
                 /\ \A i \in {1, 2, 4, 5, 7, 8, 9, 10} : IsDigit(s[i])
    IN  IF shape
        THEN The({IF m \in 1..12 /\ d >= 1 /\ d <= DaysInMonth(y, m)
                  THEN [ok |-> TRUE, t |-> DayNumber(y, m, d) * DayTicks]
                  ELSE [ok |-> FALSE, t |-> ZeroTime] :
                  d \in {DecimalValue(SubSeq(s, 1, 2))},
                  m \in {DecimalValue(SubSeq(s, 4, 5))},
                  y \in {DecimalValue(SubSeq(s, 7, 10))}})
        ELSE [ok |-> FALSE, t |-> ZeroTime]

\* The decimal digits of n >= 0, at least width of them
RECURSIVE Decimal(_, _)
Decimal(n, width) ==
    IF n < 10 /\ width <= 1 THEN <<Digits[n + 1]>>
    ELSE Append(Decimal(n \div 10, width - 1), Digits[(n % 10) + 1])

\* The tokens of the four forms
DaysToken(d) == Decimal(d, 1)
YearsToken(n) == Append(Decimal(n, 1), "y")
YearToken(y) == <<"y">> \o Decimal(y, 4)
DateToken(n) ==
    Decimal(DayOfMonth(n), 2) \o <<"-">> \o Decimal(MonthOf(n), 2)
        \o <<"-">> \o Decimal(YearOf(n), 4)

\* ------------------------------------------------------------- TimeRange
MaxDaysRange == 3650
MaxYearsRange == 10

MkTimeRange(s, e, d, sd) ==
    [StartDate |-> s, EndDate |-> e, Days |-> d, SpecificDate |-> sd,
     SpecificYear |-> FALSE, Year |-> 0]
ZeroTimeRange == MkTimeRange(ZeroTime, ZeroTime, 0, FALSE)

\* The command line after the flags: the time parameter is given or not.
\* tok is the argument; form and n say how the argument was written (the
\* program reads tok only).
Given(form, n, tok) == [given |-> TRUE, form |-> form, n |-> n, tok |-> tok]
NoParam == [given |-> FALSE, form |-> "none", n |-> 0, tok |-> <<>>]
DaysParam(d) == Given("days", d, DaysToken(d))
YearsParam(n) == Given("years", n, YearsToken(n))
YearParam(y) == Given("year", y, YearToken(y))
DateParam(n) == Given("date", n, DateToken(n))

\* Malformed time parameters: letters, a date that does not exist, a day
\* count of 0, a year count of 0
BadParams ==
    { Given("other", 0, <<"a", "b", "c">>),
      Given("other", 0, <<"3", "1", "-", "0", "4", "-", "2", "0", "2", "4">>),
      DaysParam(0), YearsParam(0) }

\* The time parameters tried with the worker pool: none, a day count, and
\* the malformed ones (a specific date gives the range of no parameter; the
\* dates are tried with the resolver on its own)
Params ==
    {NoParam}
        \cup {DaysParam(d) : d \in 1..MaxDays}
        \cup BadParams

\* The time parameters and the clock readings tried with the resolver alone:
\* every day count and year count in and just out of range, every calendar
\* year in and just out of range, dates around the end of February, and the
\* malformed ones, and tokens with a sign, leading zeros or a stray "y"
\* (OddParams); on a leap day, the day after, a New Year's Eve and a New
\* Year's Day, at the first and at the last tick of the day
OddParams ==
    { Given("odd", 0, <<"+", "5">>),
      Given("odd", 0, <<"0", "0", "7">>),
      Given("odd", 0, <<"-", "3">>),
      Given("odd", 0, <<"+", "1", "y">>),
      Given("odd", 0, <<"y", "+", "1", "0", "0">>),
      Given("odd", 0, <<"y", "2", "0", "2", "4", "y">>),
      Given("odd", 0, <<"y", "2", "0", "2">>),
      Given("odd", 0, <<"y">>) }
RangeParams ==
    {NoParam} \cup OddParams
        \cup {DaysParam(d) : d \in 0..(MaxDaysRange + 1)}
        \cup {YearsParam(n) : n \in 0..(MaxYearsRange + 1)}
        \cup {YearParam(y) : y \in 1999..2101}
        \cup {DateParam(n) : n \in DayNumber(2024, 2, 27)..DayNumber(2024, 3, 2)}
        \cup BadParams
RangeClocks ==
    {n * DayTicks + tod :
        n \in {DayNumber(2024, 2, 29), DayNumber(2024, 3, 1),
               DayNumber(2023, 12, 31), DayNumber(2025, 1, 1)},
        tod \in {0, DayTicks - 1}}

Accept(tr) == [tr |-> tr, err |-> "none"]
Reject(tr, e) == [tr |-> tr, err |-> e]

\* ParseTimeRange in which a token whose number is out of range is passed
\* on to the forms that follow instead of being rejected
ParseTimeRange_FallThrough(tok, now) ==
    LET yearArg == Atoi(Tail(tok))
        yearsArg == Atoi(SubSeq(tok, 1, Len(tok) - 1))
        daysArg == Atoi(tok)
    IN  IF HasPrefixY(tok) /\ Len(tok) = 5 /\ yearArg.ok
              /\ yearArg.v >= 2000 /\ yearArg.v <= 2100
        THEN Accept([MkTimeRange(
                         DayNumber(yearArg.v, 1, 1) * DayTicks,
                         DayNumber(yearArg.v, 12, 31) * DayTicks + (DayTicks - 1),
                         IF isLeapYear(yearArg.v) THEN 366 ELSE 365,
                         FALSE)
                     EXCEPT !.SpecificYear = TRUE, !.Year = yearArg.v])
        ELSE IF HasSuffixY(tok) /\ yearsArg.ok
                  /\ yearsArg.v >= 1 /\ yearsArg.v <= MaxYearsRange
        THEN Accept(MkTimeRange(AddDate(now, 0 - yearsArg.v, 0), now,
                                yearsArg.v * 365, FALSE))
        ELSE IF daysArg.ok /\ daysArg.v >= 1 /\ daysArg.v <= MaxDaysRange
        THEN Accept(MkTimeRange(AddDate(now, 0, 1 - daysArg.v), now,
                                daysArg.v, FALSE))
        ELSE The({IF date.ok
                  THEN Accept(MkTimeRange(date.t, AddDate(date.t, 0, 1), 1, TRUE))
                  ELSE Reject([ZeroTimeRange EXCEPT !.SpecificDate = TRUE],
                              "invalid date format") :
                  date \in {ParseSpecificDate(tok)}})

\* ParseTimeRange; now is what time.Now() returns
ParseTimeRange(tok, now) ==
    LET yearArg == Atoi(Tail(tok))
        yearsArg == Atoi(SubSeq(tok, 1, Len(tok) - 1))
        daysArg == Atoi(tok)
    IN  IF HasPrefixY(tok) /\ Len(tok) = 5
        THEN IF yearArg.ok
             THEN IF yearArg.v >= 2000 /\ yearArg.v <= 2100
                  THEN Accept([MkTimeRange(
                                   DayNumber(yearArg.v, 1, 1) * DayTicks,
                                   DayNumber(yearArg.v, 12, 31) * DayTicks + (DayTicks - 1),
                                   IF isLeapYear(yearArg.v) THEN 366 ELSE 365,
                                   FALSE)
                               EXCEPT !.SpecificYear = TRUE, !.Year = yearArg.v])
                  ELSE Reject(ZeroTimeRange, "invalid year range")
             ELSE Reject(ZeroTimeRange, "invalid year format")
        ELSE IF HasSuffixY(tok)
        THEN IF yearsArg.ok
             THEN IF yearsArg.v >= 1 /\ yearsArg.v <= MaxYearsRange
                  THEN Accept(MkTimeRange(AddDate(now, 0 - yearsArg.v, 0), now,
                                          yearsArg.v * 365, FALSE))
                  ELSE Reject(ZeroTimeRange, "invalid years range")
             ELSE Reject(ZeroTimeRange, "invalid years format")
        ELSE IF daysArg.ok
        THEN IF daysArg.v >= 1 /\ daysArg.v <= MaxDaysRange
             THEN Accept(MkTimeRange(AddDate(now, 0, 1 - daysArg.v), now,
                                     daysArg.v, FALSE))
             ELSE Reject(ZeroTimeRange, "invalid number of days")
        ELSE The({IF date.ok
                  THEN Accept(MkTimeRange(date.t, AddDate(date.t, 0, 1), 1, TRUE))
                  ELSE Reject([ZeroTimeRange EXCEPT !.SpecificDate = TRUE],
                              "invalid date format") :
                  date \in {ParseSpecificDate(tok)}})

\* main: the default when no parameter is given
DefaultTimeRange(now) == MkTimeRange(AddDate(now, 0, -1), now, 1, FALSE)

\* Normalize left out
Normalize_None(tr) == tr

\* Normalize with the start left where it is
Normalize_EndOnly(tr) == [tr EXCEPT !.EndDate = EndOfDay(tr.EndDate)]

\* main: start floored to the beginning, end raised to the end of its day
Normalize(tr) ==
    [tr EXCEPT !.StartDate = StartOfDay(tr.StartDate),
               !.EndDate = EndOfDay(tr.EndDate)]

\* --------------------------------------------------------- configuration
\* The properties file: it can be opened and read or not, and for each key
\* it has a KEY=VALUE line or none.  A value is a sequence of characters.
PropKeys == {"QW_USER", "QW_PASS", "QW_URL"}
NoLine == <<"absent">>
Configs ==
    {[readable |-> FALSE, lines |-> [k \in PropKeys |-> NoLine]]}
        \cup {[readable |-> TRUE, lines |-> l] :
                l \in {f \in [PropKeys -> {NoLine, <<>>, <<"=">>, <<"v">>}] :
                         f["QW_USER"] # <<"=">> /\ f["QW_PASS"] # <<"=">>}}

ValidConfig == [readable |-> TRUE, lines |-> [k \in PropKeys |-> <<"v">>]]

\* strings.TrimPrefix(value, "=")
TrimPrefixEq(v) == IF Len(v) >= 1 /\ v[1] = "=" THEN Tail(v) ELSE v

\* ReadProperties: the fields take the values of their lines, a field
\* without a line stays empty, and an empty field is an error
ReadProperties(cfg) ==
    LET field(k) == IF cfg.lines[k] = NoLine THEN <<>> ELSE cfg.lines[k]
        props == [QWUser |-> field("QW_USER"), QWPass |-> field("QW_PASS"),
                  QWURL |-> TrimPrefixEq(field("QW_URL"))]
    IN  IF ~cfg.readable THEN [ok |-> FALSE, err |-> "failed to open or read"]
        ELSE IF props.QWUser = <<>> \/ props.QWPass = <<>> \/ props.QWURL = <<>>
        THEN [ok |-> FALSE, err |-> "ErrMissingConfiguration"]
        ELSE [ok |-> TRUE, err |-> "none"]

\* ------------------------------------------------------------------ jobs
MkJob(s, e) == [StartTimestamp |-> s, EndTimestamp |-> e, Date |-> s]
NoJob == MkJob(0, 0)

\* ------------------------------------------------ the backend's responses
Daily(key, dc) == [key |-> key, doc_count |-> dc]
Bucket(u, dc, hp, ps, hd, ds) ==
    [key |-> u, doc_count |-> dc, hasProviders |-> hp, providers |-> ps,
     hasDaily |-> hd, daily |-> ds]
MkResp(err, ha, bs) == [err |-> err, hasAggs |-> ha, buckets |-> bs]
NoResp == MkResp("none", FALSE, <<>>)

\* What SendQuickwitRequest can return for the query of one day: a transport
\* (or backend) error, a body without "aggregations", or username buckets
\* with provider and daily sub-buckets, or without the "providers" or the
\* "daily" key.  Bucket keys are relative to the
\* day asked for; the backend buckets in UTC, so a key may fall on the day
\* before.  Every bucket is a JSON object with a string key and a numeric
\* doc_count (a bucket of another shape makes a type assertion panic, which
\* is left out), and all times are in one zone without daylight saving.
Responses(date) ==
    { MkResp("transport", FALSE, <<>>),
      MkResp("none", FALSE, <<>>),
      MkResp("none", TRUE,
             <<Bucket("u1", 2, TRUE, <<"p1">>, TRUE, <<Daily(date - 1, 2)>>)>>),
      MkResp("none", TRUE,
             <<Bucket("u2", 1, TRUE, <<"p1", "p2">>, TRUE,
                      <<Daily(date, 0), Daily(date + 1, 1)>>)>>),
      MkResp("none", TRUE,
             <<Bucket("u1", 1, FALSE, <<>>, TRUE, <<Daily(date, 1)>>),
               Bucket("u2", 1, TRUE, <<"p1">>, FALSE, <<>>)>>) }

\* ------------------------------------------------------------------ maps
EmptyMap == [x \in {} |-> 0]
Put(m, k, v) == [x \in DOMAIN m \cup {k} |-> IF x = k THEN v ELSE m[x]]
Min(a, b) == IF a < b THEN a ELSE b
Max(a, b) == IF a > b THEN a ELSE b

VARIABLES
    param,          \* the time parameter of the command line
    clock,          \* what time.Now() returns when the parameter is parsed
    config,         \* the properties file
    timeRange,      \* the resolved, normalized TimeRange
    cancelled,      \* ctx.Done() is closed
    jobs,           \* the task queue (chan Job, capacity timeRange.Days)
    jobsClosed,
    resultChan,     \* the result queue (chan LogEntry)
    resultClosed,
    errChan,        \* the error-report slot (chan error, capacity 1)
    stats,          \* QueryStats: ProcessedDays, TotalHits
    wpc, wst,       \* each worker's position and locals
    apc,            \* the aggregator's position
    userMap, userFirstSeen, userLastSeen, providerFirstSeen, providerLastSeen,
    finTodo,        \* usernames FinalizeResults has still to range over
    result,         \* the shared Result: Users, Providers, TotalHits
    mu,             \* Result.mu: writer held, number of readers
    dpc,            \* the driver's position
    currentDate,    \* the driver's job-production cursor
    outcome,        \* how the process ended, "running" until then
    report,         \* the report written, if any
    hist            \* history: what happened so far (not program state)

pvars == <<param, clock, config, timeRange>>
chans == <<jobs, jobsClosed, resultChan, resultClosed, errChan>>
wvars == <<wpc, wst>>
working == <<userMap, userFirstSeen, userLastSeen, providerFirstSeen, providerLastSeen>>
avars == <<apc, working, finTodo>>
dvars == <<dpc, currentDate, outcome, report>>
vars == <<pvars, cancelled, chans, stats, wvars, avars, result, mu, dvars, hist>>

NoErr == [worker |-> 0, err |-> "none"]
\* The zero value of SimplifiedOutputData
NoDoc ==
    [query_info |-> [days |-> 0, start_date |-> <<>>, end_date |-> <<>>,
                     total_hits |-> 0],
     summary |-> [total_users |-> 0, total_providers |-> 0],
     provider_stats |-> <<>>, user_stats |-> <<>>]

\* The report: what the exporter read from Result, the document built by
\* CreateOutputData (doc), its JSON text (json), whether the file was
\* written, and what a reader of the file gets back (parsed)
NoReport == [written |-> FALSE, format |-> "none", users |-> EmptyMap,
             providers |-> EmptyMap, totalHits |-> 0,
             doc |-> NoDoc, json |-> NoDoc, parsed |-> NoDoc]

InitWorker ==
    [job |-> NoJob, resp |-> NoResp, bi |-> 0, pi |-> 0, di |-> 0,
     hits |-> 0, err |-> "none"]

InitHist ==
    [taken |-> EmptyMap,        \* job date -> workers that received it
     queries |-> EmptyBag,      \* job date -> queries issued for it
     produced |-> {},           \* job dates put on the task queue
     jobSeq |-> <<>>,           \* the jobs put on the task queue, in order
     skipped |-> 0,             \* days the production loop passed without a job
     succeeded |-> EmptyBag,    \* job date -> hits of its successful completion
     enqueued |-> EmptyBag,     \* entry ids sent on resultChan
     emitted |-> {},            \* entries sent, with the job's date and the raw key
     consumed |-> EmptyBag,     \* entry ids received by the aggregator
     fed |-> {},                \* the LogEntry values the aggregator consumed
     prevDoc |-> NoDoc,         \* the document of the export before the latest
     exports |-> 0,             \* exports repeated on the settled Result
     inFlightAtCancel |-> {},   \* workers with a request in flight at the signal
     firstErr |-> NoErr,        \* the first error report attempted
     reports |-> 0,             \* error reports attempted
     realReports |-> 0,         \* of these, query and decode errors
     readErr |-> NoErr,         \* the error the driver read from errChan
     finalizes |-> 0,           \* finalize passes begun
     resultCloses |-> 0,        \* close(resultChan) calls
     bufferedAtClose |-> 0,     \* entries in resultChan when it was closed
     propsErr |-> "none",       \* the error ReadProperties returned
     firstPass |-> <<>>,        \* Result as one finalize pass left it (retried pass)
     cancelRunning |-> FALSE,   \* cancel fired while a worker or the aggregator ran
     cancelMidStream |-> FALSE] \* cancel fired while the aggregator was consuming

\* The state when main has parsed the flags and installed the signal
\* handler; the workers and the result processor are not yet started.
\* InitRest is that state but for the command line, the clock, the
\* properties file and the result processor.
InitRest ==
    /\ timeRange = ZeroTimeRange
    /\ cancelled = FALSE
    /\ jobs = <<>> /\ jobsClosed = FALSE
    /\ resultChan = <<>> /\ resultClosed = FALSE
    /\ errChan = <<>>
    /\ stats = [ProcessedDays |-> 0, TotalHits |-> 0]
    /\ wpc = [w \in Workers |-> "unstarted"]
    /\ wst = [w \in Workers |-> InitWorker]
    /\ userMap = EmptyMap
    /\ userFirstSeen = EmptyMap /\ userLastSeen = EmptyMap
    /\ providerFirstSeen = EmptyMap /\ providerLastSeen = EmptyMap
    /\ finTodo = {}
    /\ result = [Users |-> EmptyMap, Providers |-> EmptyMap, TotalHits |-> 0]
    /\ mu = [writer |-> FALSE, readers |-> 0]
    /\ dpc = "args"
    /\ currentDate = ZeroTime
    /\ outcome = "running"
    /\ report = NoReport
    /\ hist = InitHist

Init ==
    /\ param \in Params
    /\ clock = Now
    /\ config \in Configs
    /\ apc = "unstarted"
    /\ InitRest

Running == outcome = "running"

\* ---------------------------------------------------------------- workers
\* The position of a worker (wpc):
\*   unstarted   the goroutine is not yet started
\*   recv        for job := range jobs
\*   outer_ctx   the select on ctx.Done() at the top of the loop body
\*   worker_ctx  Worker: the select on ctx.Done() before the query is built
\*   send_req    Worker: SendQuickwitRequest is called
\*   await_resp  the request is in flight
\*   pa_ctx      ProcessAggregations: ctx check and the aggregation keys
\*   pa_loop     ProcessAggregations: the head of the loop over username buckets
\*   pub_ctx     ProcessUserBucket: ctx check
\*   pupd_ctx    ProcessUserProviderDaily: ctx check
\*   send        ProcessUserProviderDaily: the select that sends one LogEntry
\*   count       Worker returned (hits, nil): the counters are incremented
\*   report      Worker returned an error: the non-blocking send on errChan
\*   exited      the goroutine returned (wg.Done)
\* The locals of a worker (wst) are those of the job in hand; they are reset
\* when the job is done with.

SetW(w, pc, st) ==
    /\ wpc' = [wpc EXCEPT ![w] = pc]
    /\ wst' = [wst EXCEPT ![w] = st]

Fail(w, e) == SetW(w, "report", [wst[w] EXCEPT !.err = e])

CurBucket(st) == st.resp.buckets[st.bi]

\* The first daily bucket at or after index from with doc_count # 0; 0 if none
NextDaily(ds, from) ==
    LET S == {i \in from..Len(ds) : ds[i].doc_count # 0}
    IN  IF S = {} THEN 0 ELSE CHOOSE i \in S : \A j \in S : i <= j

\* ProcessUserProviderDaily returned: the next provider bucket of this user,
\* or, after the last one, ProcessUserBucket returns to the bucket loop.
AfterProvider(st) ==
    IF st.pi < Len(CurBucket(st).providers)
    THEN <<"pupd_ctx", [st EXCEPT !.pi = @ + 1, !.di = 0]>>
    ELSE <<"pa_loop", [st EXCEPT !.bi = @ + 1, !.pi = 0, !.di = 0]>>

\* CorrectDate with the decoded timestamp left as it is
CorrectDate_Raw(jobDate, ts) == ts

\* ProcessUserProviderDaily: the decoded timestamp takes the job's date and
\* keeps the bucket's time of day.
CorrectDate(jobDate, ts) == StartOfDay(jobDate) + TodOf(ts)

EntryId(st) == [job |-> st.job.Date, bi |-> st.bi, pi |-> st.pi, di |-> st.di]

\* The LogEntry sent for the current (bucket, provider, daily) position.  The
\* id names the entry in the history; the program does not read it.
MkEntry(st) ==
    LET b == CurBucket(st)
    IN  [Username |-> b.key,
         ServiceProvider |-> b.providers[st.pi],
         Timestamp |-> CorrectDate(st.job.Date, b.daily[st.di].key),
         id |-> EntryId(st)]

\* WRecv with the job left on the queue (a peek instead of a receive)
WRecv_Peek(w) ==
    /\ Running /\ wpc[w] = "recv"
    /\ jobs # <<>>
    /\ LET job == Head(jobs)
           before == IF job.Date \in DOMAIN hist.taken
                     THEN hist.taken[job.Date] ELSE <<>>
       IN  /\ SetW(w, "outer_ctx", [InitWorker EXCEPT !.job = job])
           /\ hist' = [hist EXCEPT
                         !.taken = Put(@, job.Date, Append(before, w))]
    /\ UNCHANGED <<pvars, cancelled, jobs, jobsClosed, resultChan, resultClosed,
                   errChan, stats, avars, result, mu, dvars>>

\* for job := range jobs, a job is received
WRecv(w) ==
    /\ Running /\ wpc[w] = "recv"
    /\ jobs # <<>>
    /\ LET job == Head(jobs)
           before == IF job.Date \in DOMAIN hist.taken
                     THEN hist.taken[job.Date] ELSE <<>>
       IN  /\ jobs' = Tail(jobs)
           /\ SetW(w, "outer_ctx", [InitWorker EXCEPT !.job = job])
           /\ hist' = [hist EXCEPT
                         !.taken = Put(@, job.Date, Append(before, w))]
    /\ UNCHANGED <<pvars, cancelled, jobsClosed, resultChan, resultClosed,
                   errChan, stats, avars, result, mu, dvars>>

\* for job := range jobs, the queue is closed and drained: the worker returns
WRangeEnd(w) ==
    /\ Running /\ wpc[w] = "recv"
    /\ jobs = <<>> /\ jobsClosed
    /\ SetW(w, "exited", InitWorker)
    /\ UNCHANGED <<pvars, cancelled, chans, stats, avars, result, mu, dvars, hist>>

\* WOuterCtx without the select on ctx.Done(): Worker is called for every job
WOuterCtx_NoCheck(w) ==
    /\ Running /\ wpc[w] = "outer_ctx"
    /\ SetW(w, "worker_ctx", wst[w])
    /\ UNCHANGED <<pvars, cancelled, chans, stats, avars, result, mu, dvars, hist>>

\* select { case <-ctx.Done(): return; default: }
WOuterCtx(w) ==
    /\ Running /\ wpc[w] = "outer_ctx"
    /\ IF cancelled THEN SetW(w, "exited", InitWorker)
       ELSE SetW(w, "worker_ctx", wst[w])
    /\ UNCHANGED <<pvars, cancelled, chans, stats, avars, result, mu, dvars, hist>>

\* Worker: select { case <-ctx.Done(): return 0, ctx.Err(); default: }
WWorkerCtx(w) ==
    /\ Running /\ wpc[w] = "worker_ctx"
    /\ IF cancelled THEN Fail(w, "ctx") ELSE SetW(w, "send_req", wst[w])
    /\ UNCHANGED <<pvars, cancelled, chans, stats, avars, result, mu, dvars, hist>>

\* Worker: client.SendQuickwitRequest(ctx, currentQuery), the request goes out
WSendRequest(w) ==
    /\ Running /\ wpc[w] = "send_req"
    /\ SetW(w, "await_resp", wst[w])
    /\ hist' = [hist EXCEPT !.queries = @ (+) SetToBag({wst[w].job.Date})]
    /\ UNCHANGED <<pvars, cancelled, chans, stats, avars, result, mu, dvars>>

\* SendQuickwitRequest returns: an error, or the decoded body.  The request
\* carries ctx, so once ctx is cancelled client.Do may return ctx's error.
WResponse(w) ==
    /\ Running /\ wpc[w] = "await_resp"
    /\ \/ \E r \in Responses(wst[w].job.Date) :
            IF r.err # "none" THEN Fail(w, r.err)
            ELSE SetW(w, "pa_ctx", [wst[w] EXCEPT !.resp = r])
       \/ cancelled /\ Fail(w, "ctx")
    /\ UNCHANGED <<pvars, cancelled, chans, stats, avars, result, mu, dvars, hist>>

\* ProcessAggregations: ctx check, then the "aggregations", "unique_users"
\* and "buckets" keys
WProcessAggregations(w) ==
    /\ Running /\ wpc[w] = "pa_ctx"
    /\ IF cancelled THEN Fail(w, "ctx")
       ELSE IF ~wst[w].resp.hasAggs THEN Fail(w, "decode")
       ELSE SetW(w, "pa_loop", [wst[w] EXCEPT !.bi = 1, !.hits = 0])
    /\ UNCHANGED <<pvars, cancelled, chans, stats, avars, result, mu, dvars, hist>>

\* ProcessAggregations: one turn of the loop over username buckets, up to the
\* call of ProcessUserBucket; after the last bucket, return totalHits, nil
WBucketLoop(w) ==
    /\ Running /\ wpc[w] = "pa_loop"
    /\ LET st == wst[w]
       IN  IF st.bi > Len(st.resp.buckets) THEN SetW(w, "count", st)
           ELSE IF cancelled THEN Fail(w, "ctx")
           ELSE SetW(w, "pub_ctx",
                     [st EXCEPT !.hits = @ + CurBucket(st).doc_count])
    /\ UNCHANGED <<pvars, cancelled, chans, stats, avars, result, mu, dvars, hist>>

\* ProcessUserBucket: ctx check, then the "providers" key and its buckets
WProcessUserBucket(w) ==
    /\ Running /\ wpc[w] = "pub_ctx"
    /\ LET st == wst[w]
           b == CurBucket(st)
       IN  IF cancelled \/ ~b.hasProviders \/ b.providers = <<>>
           THEN SetW(w, "pa_loop", [st EXCEPT !.bi = @ + 1])
           ELSE SetW(w, "pupd_ctx", [st EXCEPT !.pi = 1])
    /\ UNCHANGED <<pvars, cancelled, chans, stats, avars, result, mu, dvars, hist>>

\* ProcessUserProviderDaily: ctx check, then the "daily" key; daily buckets
\* with doc_count = 0 are skipped
WProcessUserProviderDaily(w) ==
    /\ Running /\ wpc[w] = "pupd_ctx"
    /\ LET st == wst[w]
           b == CurBucket(st)
           nd == IF b.hasDaily THEN NextDaily(b.daily, 1) ELSE 0
           next == AfterProvider(st)
       IN  IF cancelled \/ nd = 0
           THEN SetW(w, next[1], next[2])
           ELSE SetW(w, "send", [st EXCEPT !.di = nd])
    /\ UNCHANGED <<pvars, cancelled, chans, stats, avars, result, mu, dvars, hist>>

\* WSend with a send that gives the entry up when the queue is full
WSend_DropWhenFull(w) ==
    /\ Running /\ wpc[w] = "send"
    /\ LET st == wst[w]
           nd == NextDaily(CurBucket(st).daily, st.di + 1)
           full == Len(resultChan) >= ResultChanCap
       IN  /\ resultChan' = IF full THEN resultChan
                            ELSE Append(resultChan, MkEntry(st))
           /\ hist' = IF full THEN hist
                      ELSE [hist EXCEPT
                              !.enqueued = @ (+) SetToBag({EntryId(st)}),
                              !.emitted = @ \cup
                                  {[job |-> st.job.Date,
                                    raw |-> CurBucket(st).daily[st.di].key,
                                    entry |-> MkEntry(st)]}]
           /\ IF nd = 0 THEN SetW(w, AfterProvider(st)[1], AfterProvider(st)[2])
              ELSE SetW(w, "send", [st EXCEPT !.di = nd])
    /\ UNCHANGED <<pvars, cancelled, jobs, jobsClosed, resultClosed, errChan,
                   stats, avars, result, mu, dvars>>

\* ProcessUserProviderDaily: select { case resultChan <- LogEntry{...}:
\* case <-ctx.Done(): return }
WSend(w) ==
    /\ Running /\ wpc[w] = "send"
    /\ LET st == wst[w]
           nd == NextDaily(CurBucket(st).daily, st.di + 1)
           next == AfterProvider(st)
       IN  \/ /\ Len(resultChan) < ResultChanCap
              /\ resultChan' = Append(resultChan, MkEntry(st))
              /\ hist' = [hist EXCEPT
                            !.enqueued = @ (+) SetToBag({EntryId(st)}),
                            !.emitted = @ \cup
                                {[job |-> st.job.Date,
                                  raw |-> CurBucket(st).daily[st.di].key,
                                  entry |-> MkEntry(st)]}]
              /\ IF nd = 0 THEN SetW(w, next[1], next[2])
                 ELSE SetW(w, "send", [st EXCEPT !.di = nd])
           \/ /\ cancelled
              /\ SetW(w, next[1], next[2])
              /\ UNCHANGED <<resultChan, hist>>
    /\ UNCHANGED <<pvars, cancelled, jobs, jobsClosed, resultClosed, errChan,
                   stats, avars, result, mu, dvars>>

\* stats.TotalHits.Add(hits); stats.ProcessedDays.Add(1)
WCount(w) ==
    /\ Running /\ wpc[w] = "count"
    /\ stats' = [ProcessedDays |-> stats.ProcessedDays + 1,
                 TotalHits |-> stats.TotalHits + wst[w].hits]
    /\ SetW(w, "recv", InitWorker)
    /\ hist' = [hist EXCEPT
                  !.succeeded = @ (+) SetToBag({<<wst[w].job.Date, wst[w].hits>>})]
    /\ UNCHANGED <<pvars, cancelled, chans, avars, result, mu, dvars>>

\* WReport with the slot overwritten by a later report
WReport_Overwrite(w) ==
    /\ Running /\ wpc[w] = "report"
    /\ LET e == [worker |-> w, err |-> wst[w].err]
       IN  /\ errChan' = <<e>>
           /\ hist' = [hist EXCEPT
                         !.firstErr = IF hist.reports = 0 THEN e ELSE @,
                         !.reports = @ + 1,
                         !.realReports = IF e.err = "ctx" THEN @ ELSE @ + 1]
    /\ SetW(w, "exited", InitWorker)
    /\ UNCHANGED <<pvars, cancelled, jobs, jobsClosed, resultChan, resultClosed,
                   stats, avars, result, mu, dvars>>

\* WReport that also cancels the run, stopping the other workers
WReport_CancelAll(w) ==
    /\ Running /\ wpc[w] = "report"
    /\ LET e == [worker |-> w, err |-> wst[w].err]
       IN  /\ errChan' = IF Len(errChan) < 1 THEN Append(errChan, e) ELSE errChan
           /\ hist' = [hist EXCEPT
                         !.firstErr = IF hist.reports = 0 THEN e ELSE @,
                         !.reports = @ + 1,
                         !.realReports = IF e.err = "ctx" THEN @ ELSE @ + 1]
    /\ SetW(w, "exited", InitWorker)
    /\ cancelled' = TRUE
    /\ UNCHANGED <<pvars, jobs, jobsClosed, resultChan, resultClosed,
                   stats, avars, result, mu, dvars>>

\* WReport without the return: the worker goes back to the task queue
WReport_Continue(w) ==
    /\ Running /\ wpc[w] = "report"
    /\ LET e == [worker |-> w, err |-> wst[w].err]
       IN  /\ errChan' = IF Len(errChan) < 1 THEN Append(errChan, e) ELSE errChan
           /\ hist' = [hist EXCEPT
                         !.firstErr = IF hist.reports = 0 THEN e ELSE @,
                         !.reports = @ + 1,
                         !.realReports = IF e.err = "ctx" THEN @ ELSE @ + 1]
    /\ SetW(w, "recv", InitWorker)
    /\ UNCHANGED <<pvars, cancelled, jobs, jobsClosed, resultChan, resultClosed,
                   stats, avars, result, mu, dvars>>

\* select { case errChan <- fmt.Errorf("worker %d error: %w", ...): default: }
\* return
WReport(w) ==
    /\ Running /\ wpc[w] = "report"
    /\ LET e == [worker |-> w, err |-> wst[w].err]
       IN  /\ errChan' = IF Len(errChan) < 1 THEN Append(errChan, e) ELSE errChan
           /\ hist' = [hist EXCEPT
                         !.firstErr = IF hist.reports = 0 THEN e ELSE @,
                         !.reports = @ + 1,
                         !.realReports = IF e.err = "ctx" THEN @ ELSE @ + 1]
    /\ SetW(w, "exited", InitWorker)
    /\ UNCHANGED <<pvars, cancelled, jobs, jobsClosed, resultChan, resultClosed,
                   stats, avars, result, mu, dvars>>

WorkerStep(w) ==
    \/ WRecv(w) \/ WRangeEnd(w) \/ WOuterCtx(w) \/ WWorkerCtx(w)
    \/ WSendRequest(w) \/ WResponse(w) \/ WProcessAggregations(w)
    \/ WBucketLoop(w) \/ WProcessUserBucket(w) \/ WProcessUserProviderDaily(w)
    \/ WSend(w) \/ WCount(w) \/ WReport(w)

\* ------------------------------------------------------------- aggregator
\* The position of the aggregator (apc):
\*   consume   ProcessResults: the select on resultChan and ctx.Done()
\*   finalize  FinalizeResults was called and waits for result.mu.Lock()
\*   fin_loop  FinalizeResults holds the lock and ranges over userMap
\*   done      ProcessResults returned and processDone is closed

\* ProcessResults: one LogEntry is received and folded into the working maps
AConsume ==
    /\ Running /\ apc = "consume"
    /\ resultChan # <<>>
    /\ LET entry == Head(resultChan)
           u == entry.Username
           p == entry.ServiceProvider
           ts == entry.Timestamp
           newUser == u \notin DOMAIN userMap
       IN  /\ resultChan' = Tail(resultChan)
           /\ userMap' = Put(userMap, u,
                             (IF newUser THEN {} ELSE userMap[u]) \cup {p})
           /\ userFirstSeen' = Put(userFirstSeen, u,
                 IF newUser THEN ts ELSE Min(userFirstSeen[u], ts))
           /\ userLastSeen' = Put(userLastSeen, u,
                 IF newUser THEN ts ELSE Max(userLastSeen[u], ts))
           /\ providerFirstSeen' = Put(providerFirstSeen, p,
                 IF p \notin DOMAIN providerFirstSeen THEN ts
                 ELSE Min(providerFirstSeen[p], ts))
           /\ providerLastSeen' = Put(providerLastSeen, p,
                 IF p \notin DOMAIN providerLastSeen THEN ts
                 ELSE Max(providerLastSeen[p], ts))
           /\ hist' = [hist EXCEPT
                         !.consumed = @ (+) SetToBag({entry.id}),
                         !.fed = @ \cup {[Username |-> u, ServiceProvider |-> p,
                                          Timestamp |-> ts]}]
    /\ UNCHANGED <<pvars, cancelled, jobs, jobsClosed, resultClosed, errChan,
                   stats, wvars, apc, finTodo, result, mu, dvars>>

\* AClosed taken as soon as resultChan is closed, buffered entries or not
AClosed_NoDrain ==
    /\ Running /\ apc = "consume"
    /\ resultClosed
    /\ apc' = "finalize"
    /\ UNCHANGED <<pvars, cancelled, chans, stats, wvars, working, finTodo,
                   result, mu, dvars, hist>>

\* AClosed returning without the call of FinalizeResults
AClosed_SkipFinalize ==
    /\ Running /\ apc = "consume"
    /\ resultChan = <<>> /\ resultClosed
    /\ apc' = "done"
    /\ UNCHANGED <<pvars, cancelled, chans, stats, wvars, working, finTodo,
                   result, mu, dvars, hist>>

\* ProcessResults: resultChan is closed and drained (ok = false)
AClosed ==
    /\ Running /\ apc = "consume"
    /\ resultChan = <<>> /\ resultClosed
    /\ apc' = "finalize"
    /\ UNCHANGED <<pvars, cancelled, chans, stats, wvars, working, finTodo,
                   result, mu, dvars, hist>>

\* ProcessResults: case <-ctx.Done()
ACancelled ==
    /\ Running /\ apc = "consume"
    /\ cancelled
    /\ apc' = "finalize"
    /\ UNCHANGED <<pvars, cancelled, chans, stats, wvars, working, finTodo,
                   result, mu, dvars, hist>>

\* FLock without the Lock
FLock_NoLock ==
    /\ Running /\ apc = "finalize"
    /\ finTodo' = DOMAIN userMap
    /\ apc' = "fin_loop"
    /\ hist' = [hist EXCEPT !.finalizes = @ + 1]
    /\ UNCHANGED <<pvars, cancelled, chans, stats, wvars, working, result, mu,
                   dvars>>

\* FinalizeResults: result.mu.Lock()
FLock ==
    /\ Running /\ apc = "finalize"
    /\ ~mu.writer /\ mu.readers = 0
    /\ mu' = [mu EXCEPT !.writer = TRUE]
    /\ finTodo' = DOMAIN userMap
    /\ apc' = "fin_loop"
    /\ hist' = [hist EXCEPT !.finalizes = @ + 1]
    /\ UNCHANGED <<pvars, cancelled, chans, stats, wvars, working, result, dvars>>

\* FinalizeUser with the users of a provider already in Result replaced by
\* the one user in hand
FinalizeUser_ReplaceUsers(res, u, um, ufs, uls, pfs, pls) ==
    LET oldU == res.Users
        oldP == res.Providers
        base == IF u \notin DOMAIN oldU
                THEN [Providers |-> {}, FirstSeen |-> ufs[u], LastSeen |-> uls[u]]
                ELSE [Providers |-> oldU[u].Providers,
                      FirstSeen |-> Min(oldU[u].FirstSeen, ufs[u]),
                      LastSeen |-> Max(oldU[u].LastSeen, uls[u])]
        prov(p) == IF p \notin DOMAIN oldP
                   THEN [Users |-> {u}, FirstSeen |-> pfs[p], LastSeen |-> pls[p]]
                   ELSE [Users |-> {u},
                         FirstSeen |-> Min(oldP[p].FirstSeen, pfs[p]),
                         LastSeen |-> Max(oldP[p].LastSeen, pls[p])]
    IN  [res EXCEPT
           !.Users = Put(oldU, u, [base EXCEPT !.Providers = @ \cup um[u]]),
           !.Providers = [p \in DOMAIN oldP \cup um[u] |->
                            IF p \in um[u] THEN prov(p) ELSE oldP[p]]]

\* FinalizeUser with the first-seen and last-seen of a user or provider
\* already in Result taken from the working maps
FinalizeUser_TakeLatest(res, u, um, ufs, uls, pfs, pls) ==
    LET oldU == res.Users
        oldP == res.Providers
        base == IF u \notin DOMAIN oldU
                THEN [Providers |-> {}, FirstSeen |-> ufs[u], LastSeen |-> uls[u]]
                ELSE [Providers |-> oldU[u].Providers,
                      FirstSeen |-> ufs[u], LastSeen |-> uls[u]]
        prov(p) == IF p \notin DOMAIN oldP
                   THEN [Users |-> {u}, FirstSeen |-> pfs[p], LastSeen |-> pls[p]]
                   ELSE [Users |-> oldP[p].Users \cup {u},
                         FirstSeen |-> pfs[p], LastSeen |-> pls[p]]
    IN  [res EXCEPT
           !.Users = Put(oldU, u, [base EXCEPT !.Providers = @ \cup um[u]]),
           !.Providers = [p \in DOMAIN oldP \cup um[u] |->
                            IF p \in um[u] THEN prov(p) ELSE oldP[p]]]

\* FinalizeUser with a provider already in Result replaced instead of merged
FinalizeUser_Overwrite(res, u, um, ufs, uls, pfs, pls) ==
    LET oldU == res.Users
        oldP == res.Providers
        prov(p) == [Users |-> {u}, FirstSeen |-> pfs[p], LastSeen |-> pls[p]]
    IN  [res EXCEPT
           !.Users = Put(oldU, u, [Providers |-> um[u], FirstSeen |-> ufs[u],
                                   LastSeen |-> uls[u]]),
           !.Providers = [p \in DOMAIN oldP \cup um[u] |->
                            IF p \in um[u] THEN prov(p) ELSE oldP[p]]]

\* FinalizeUser with the user not added to the users of a provider already
\* in Result
FinalizeUser_NoBackLink(res, u, um, ufs, uls, pfs, pls) ==
    LET oldU == res.Users
        oldP == res.Providers
        base == IF u \notin DOMAIN oldU
                THEN [Providers |-> {}, FirstSeen |-> ufs[u], LastSeen |-> uls[u]]
                ELSE [Providers |-> oldU[u].Providers,
                      FirstSeen |-> Min(oldU[u].FirstSeen, ufs[u]),
                      LastSeen |-> Max(oldU[u].LastSeen, uls[u])]
        prov(p) == IF p \notin DOMAIN oldP
                   THEN [Users |-> {u}, FirstSeen |-> pfs[p], LastSeen |-> pls[p]]
                   ELSE [Users |-> oldP[p].Users,
                         FirstSeen |-> Min(oldP[p].FirstSeen, pfs[p]),
                         LastSeen |-> Max(oldP[p].LastSeen, pls[p])]
    IN  [res EXCEPT
           !.Users = Put(oldU, u, [base EXCEPT !.Providers = @ \cup um[u]]),
           !.Providers = [p \in DOMAIN oldP \cup um[u] |->
                            IF p \in um[u] THEN prov(p) ELSE oldP[p]]]

\* FinalizeUser with only the first-seen of a user or provider already in
\* Result updated, and that from the working maps unconditionally
FinalizeUser_FirstOnly(res, u, um, ufs, uls, pfs, pls) ==
    LET oldU == res.Users
        oldP == res.Providers
        base == IF u \notin DOMAIN oldU
                THEN [Providers |-> {}, FirstSeen |-> ufs[u], LastSeen |-> uls[u]]
                ELSE [Providers |-> oldU[u].Providers,
                      FirstSeen |-> ufs[u], LastSeen |-> oldU[u].LastSeen]
        prov(p) == IF p \notin DOMAIN oldP
                   THEN [Users |-> {u}, FirstSeen |-> pfs[p], LastSeen |-> pls[p]]
                   ELSE [Users |-> oldP[p].Users \cup {u},
                         FirstSeen |-> pfs[p], LastSeen |-> oldP[p].LastSeen]
    IN  [res EXCEPT
           !.Users = Put(oldU, u, [base EXCEPT !.Providers = @ \cup um[u]]),
           !.Providers = [p \in DOMAIN oldP \cup um[u] |->
                            IF p \in um[u] THEN prov(p) ELSE oldP[p]]]

\* FinalizeResults: the body of the loop over userMap for one username, with
\* its inner loop over that user's providers
FinalizeUser(res, u, um, ufs, uls, pfs, pls) ==
    LET oldU == res.Users
        oldP == res.Providers
        base == IF u \notin DOMAIN oldU
                THEN [Providers |-> {}, FirstSeen |-> ufs[u], LastSeen |-> uls[u]]
                ELSE [Providers |-> oldU[u].Providers,
                      FirstSeen |-> Min(oldU[u].FirstSeen, ufs[u]),
                      LastSeen |-> Max(oldU[u].LastSeen, uls[u])]
        prov(p) == IF p \notin DOMAIN oldP
                   THEN [Users |-> {u}, FirstSeen |-> pfs[p], LastSeen |-> pls[p]]
                   ELSE [Users |-> oldP[p].Users \cup {u},
                         FirstSeen |-> Min(oldP[p].FirstSeen, pfs[p]),
                         LastSeen |-> Max(oldP[p].LastSeen, pls[p])]
    IN  [res EXCEPT
           !.Users = Put(oldU, u, [base EXCEPT !.Providers = @ \cup um[u]]),
           !.Providers = [p \in DOMAIN oldP \cup um[u] |->
                            IF p \in um[u] THEN prov(p) ELSE oldP[p]]]

\* FinalizeResults: one turn of the loop; Go ranges over a map in any order
FUser ==
    /\ Running /\ apc = "fin_loop"
    /\ \E u \in finTodo :
         /\ result' = FinalizeUser(result, u, userMap, userFirstSeen,
                                   userLastSeen, providerFirstSeen,
                                   providerLastSeen)
         /\ finTodo' = finTodo \ {u}
    /\ UNCHANGED <<pvars, cancelled, chans, stats, wvars, apc, working, mu,
                   dvars, hist>>

\* FinalizeResults: the loop is over, the deferred Unlock runs;
\* ProcessResults returns and processDone is closed
FUnlock ==
    /\ Running /\ apc = "fin_loop"
    /\ finTodo = {}
    /\ mu' = [mu EXCEPT !.writer = FALSE]
    /\ apc' = "done"
    /\ UNCHANGED <<pvars, cancelled, chans, stats, wvars, working, finTodo,
                   result, dvars, hist>>

AggregatorStep == AConsume \/ AClosed \/ ACancelled \/ FLock \/ FUser \/ FUnlock

\* ----------------------------------------------------------------- driver
\* The position of main (dpc):
\*   args         the time parameter is parsed, or defaulted, and normalized
\*   props        ReadProperties
\*   start        the channels are made, the goroutines started
\*   produce      the job-production loop
\*   wait         wg.Wait()
\*   wait_proc    the select on processDone and ctx.Done()
\*   check_err    the non-blocking receive on errChan
\*   store_hits   result.TotalHits = stats.TotalHits.Load()
\*   summary      the "Number of users / providers" lines
\*   export       the choice of the output format
\*   json_read    CreateOutputData holds the read lock
\*   json_save    SaveOutputToJSON
\*   csv_read     ExportToCSV holds the read lock (users and providers files)
\*   csv_summary  ExportToCSV writes the summary file
\*   exit         the process ended

Exit(how) == outcome' = how /\ dpc' = "exit"

\* ParseTimeRange with the error ignored: the range stays the zero value
DParseArgs_IgnoreError ==
    /\ Running /\ dpc = "args"
    /\ LET r == IF param.given THEN ParseTimeRange(param.tok, clock)
                ELSE Accept(DefaultTimeRange(clock))
       IN  timeRange' = Normalize(r.tr)
    /\ dpc' = "props"
    /\ UNCHANGED <<param, clock, config, cancelled, chans, stats, wvars, avars,
                   result, mu, currentDate, outcome, report, hist>>

\* main: with a second argument ParseTimeRange is called and its error is
\* fatal; without one the range is the last day; then the range is
\* normalized
DParseArgs ==
    /\ Running /\ dpc = "args"
    /\ LET r == IF param.given THEN ParseTimeRange(param.tok, clock)
                ELSE Accept(DefaultTimeRange(clock))
       IN  IF r.err # "none"
           THEN /\ timeRange' = r.tr
                /\ Exit("fatal_input")
           ELSE /\ timeRange' = Normalize(r.tr)
                /\ dpc' = "props"
                /\ UNCHANGED outcome
    /\ UNCHANGED <<param, clock, config, cancelled, chans, stats, wvars, avars,
                   result, mu, currentDate, report, hist>>

\* ReadProperties with the validation of the required keys left out
DReadProperties_NoValidation ==
    /\ Running /\ dpc = "props"
    /\ IF ~config.readable
       THEN /\ hist' = [hist EXCEPT !.propsErr = ReadProperties(config).err]
            /\ Exit("fatal_config")
       ELSE /\ dpc' = "start"
            /\ UNCHANGED <<outcome, hist>>
    /\ UNCHANGED <<pvars, cancelled, chans, stats, wvars, avars, result, mu,
                   currentDate, report>>

\* main: props, err := ReadProperties(*configFile); an error is fatal
DReadProperties ==
    /\ Running /\ dpc = "props"
    /\ LET r == ReadProperties(config)
       IN  IF ~r.ok
           THEN /\ hist' = [hist EXCEPT !.propsErr = r.err]
                /\ Exit("fatal_config")
           ELSE /\ dpc' = "start"
                /\ UNCHANGED <<outcome, hist>>
    /\ UNCHANGED <<pvars, cancelled, chans, stats, wvars, avars, result, mu,
                   currentDate, report>>

\* main: resultChan, errChan and jobs are made, the workers and the result
\* processor are started, and the production cursor is set to the start of
\* the range.  No goroutine can take a step that another sees before the
\* first job is on the queue.
DStart ==
    /\ Running /\ dpc = "start"
    /\ wpc' = [w \in Workers |-> "recv"]
    /\ apc' = "consume"
    /\ currentDate' = timeRange.StartDate
    /\ dpc' = "produce"
    /\ UNCHANGED <<pvars, cancelled, chans, stats, wst, working, finTodo,
                   result, mu, outcome, report, hist>>

\* DProduce with a plain send, without the ctx.Done() case
DProduce_NoCtx ==
    /\ Running /\ dpc = "produce"
    /\ currentDate < timeRange.EndDate
    /\ LET plus24h == currentDate + DayTicks
           nextDate == IF plus24h > timeRange.EndDate
                       THEN timeRange.EndDate ELSE plus24h
       IN  /\ Len(jobs) < timeRange.Days
           /\ jobs' = Append(jobs, MkJob(currentDate, nextDate))
           /\ hist' = [hist EXCEPT
                         !.produced = @ \cup {currentDate},
                         !.jobSeq = Append(@, MkJob(currentDate, nextDate))]
           /\ currentDate' = nextDate
    /\ UNCHANGED <<pvars, cancelled, jobsClosed, resultChan, resultClosed,
                   errChan, stats, wvars, avars, result, mu, dpc, outcome, report>>

\* DProduce with the end of the job not clipped to the end of the range
DProduce_NoClip ==
    /\ Running /\ dpc = "produce"
    /\ currentDate < timeRange.EndDate
    /\ LET nextDate == currentDate + DayTicks
       IN  /\ \/ /\ Len(jobs) < timeRange.Days
                 /\ jobs' = Append(jobs, MkJob(currentDate, nextDate))
                 /\ hist' = [hist EXCEPT
                               !.produced = @ \cup {currentDate},
                               !.jobSeq = Append(@, MkJob(currentDate, nextDate))]
              \/ /\ cancelled
                 /\ hist' = [hist EXCEPT !.skipped = @ + 1]
                 /\ UNCHANGED jobs
           /\ currentDate' = nextDate
    /\ UNCHANGED <<pvars, cancelled, jobsClosed, resultChan, resultClosed,
                   errChan, stats, wvars, avars, result, mu, dpc, outcome, report>>

\* One turn of the job-production loop.  The break in the ctx.Done() case
\* leaves the select, not the loop: the day is skipped and the loop goes on.
DProduce ==
    /\ Running /\ dpc = "produce"
    /\ currentDate < timeRange.EndDate
    /\ LET plus24h == currentDate + DayTicks
           nextDate == IF plus24h > timeRange.EndDate
                       THEN timeRange.EndDate ELSE plus24h
       IN  /\ \/ /\ Len(jobs) < timeRange.Days
                 /\ jobs' = Append(jobs, MkJob(currentDate, nextDate))
                 /\ hist' = [hist EXCEPT
                               !.produced = @ \cup {currentDate},
                               !.jobSeq = Append(@, MkJob(currentDate, nextDate))]
              \/ /\ cancelled
                 /\ hist' = [hist EXCEPT !.skipped = @ + 1]
                 /\ UNCHANGED jobs
           /\ currentDate' = nextDate
    /\ UNCHANGED <<pvars, cancelled, jobsClosed, resultChan, resultClosed,
                   errChan, stats, wvars, avars, result, mu, dpc, outcome, report>>

\* The loop condition fails: close(jobs)
DCloseJobs ==
    /\ Running /\ dpc = "produce"
    /\ ~(currentDate < timeRange.EndDate)
    /\ jobsClosed' = TRUE
    /\ dpc' = "wait"
    /\ UNCHANGED <<pvars, cancelled, jobs, resultChan, resultClosed, errChan,
                   stats, wvars, avars, result, mu, currentDate, outcome,
                   report, hist>>

\* DWait without wg.Wait(): resultChan is closed while workers still run
DWait_NoWait ==
    /\ Running /\ dpc = "wait"
    /\ resultClosed' = TRUE
    /\ dpc' = "wait_proc"
    /\ hist' = [hist EXCEPT !.resultCloses = @ + 1,
                             !.bufferedAtClose = Len(resultChan)]
    /\ UNCHANGED <<pvars, cancelled, jobs, jobsClosed, resultChan, errChan,
                   stats, wvars, avars, result, mu, currentDate, outcome, report>>

\* wg.Wait() returns when every worker has returned; close(resultChan)
DWait ==
    /\ Running /\ dpc = "wait"
    /\ \A w \in Workers : wpc[w] = "exited"
    /\ resultClosed' = TRUE
    /\ dpc' = "wait_proc"
    /\ hist' = [hist EXCEPT !.resultCloses = @ + 1,
                             !.bufferedAtClose = Len(resultChan)]
    /\ UNCHANGED <<pvars, cancelled, jobs, jobsClosed, resultChan, errChan,
                   stats, wvars, avars, result, mu, currentDate, outcome, report>>

\* DProcessDone without the wait for processDone
DProcessDone_NoWait ==
    /\ Running /\ dpc = "wait_proc"
    /\ dpc' = "check_err"
    /\ UNCHANGED <<pvars, cancelled, chans, stats, wvars, avars, result, mu,
                   currentDate, outcome, report, hist>>

\* select { case <-processDone: ... }
DProcessDone ==
    /\ Running /\ dpc = "wait_proc"
    /\ apc = "done"
    /\ dpc' = "check_err"
    /\ UNCHANGED <<pvars, cancelled, chans, stats, wvars, avars, result, mu,
                   currentDate, outcome, report, hist>>

\* select { ... case <-ctx.Done(): "Operation cancelled."; os.Exit(1) }
DCancelled ==
    /\ Running /\ dpc = "wait_proc"
    /\ cancelled
    /\ Exit("cancelled")
    /\ UNCHANGED <<pvars, cancelled, chans, stats, wvars, avars, result, mu,
                   currentDate, report, hist>>

\* DCheckErr without the receive: the driver goes on to export
DCheckErr_Ignore ==
    /\ Running /\ dpc = "check_err"
    /\ dpc' = "store_hits"
    /\ UNCHANGED <<pvars, cancelled, chans, stats, wvars, avars, result, mu,
                   currentDate, outcome, report, hist>>

\* select { case err := <-errChan: log.Fatalf(...); default: }
DCheckErr ==
    /\ Running /\ dpc = "check_err"
    /\ IF errChan # <<>>
       THEN /\ errChan' = Tail(errChan)
            /\ hist' = [hist EXCEPT !.readErr = Head(errChan)]
            /\ Exit("fatal")
       ELSE /\ dpc' = "store_hits"
            /\ UNCHANGED <<errChan, hist, outcome>>
    /\ UNCHANGED <<pvars, cancelled, jobs, jobsClosed, resultChan, resultClosed,
                   stats, wvars, avars, result, mu, currentDate, report>>

\* result.TotalHits = stats.TotalHits.Load()
DStoreHits ==
    /\ Running /\ dpc = "store_hits"
    /\ result' = [result EXCEPT !.TotalHits = stats.TotalHits]
    /\ dpc' = "summary"
    /\ UNCHANGED <<pvars, cancelled, chans, stats, wvars, avars, mu,
                   currentDate, outcome, report, hist>>

\* The summary lines read len(result.Users), len(result.Providers) and
\* result.TotalHits without the lock
DSummary ==
    /\ Running /\ dpc = "summary"
    /\ dpc' = "export"
    /\ UNCHANGED <<pvars, cancelled, chans, stats, wvars, avars, result, mu,
                   currentDate, outcome, report, hist>>

\* -format json: CreateOutputData takes the read lock
DExportJSON ==
    /\ Running /\ dpc = "export"
    /\ ~mu.writer
    /\ mu' = [mu EXCEPT !.readers = @ + 1]
    /\ dpc' = "json_read"
    /\ UNCHANGED <<pvars, cancelled, chans, stats, wvars, avars, result,
                   currentDate, outcome, report, hist>>

\* ------------------------------------------------------- the JSON document
\* A Go string is a sequence of bytes.  Spell gives the characters of the
\* names that occur, ByteOf the byte of a character.
Spell(s) ==
    CASE s = "u1" -> <<"u", "1">>
      [] s = "u2" -> <<"u", "2">>
      [] s = "p1" -> <<"p", "1">>
      [] s = "p2" -> <<"p", "2">>
      [] s = "a<" -> <<"a", "<">>
      [] s = "aB" -> <<"a", "B">>
      [] s = "q\"" -> <<"q", "\"">>
ByteOf(c) ==
    CASE c = " " -> 32 [] c = "\"" -> 34 [] c = "-" -> 45
      [] c = "<" -> 60 [] c = "B" -> 66 [] c = "\\" -> 92
      [] c = "a" -> 97 [] c = "c" -> 99 [] c = "p" -> 112
      [] c = "q" -> 113 [] c = "u" -> 117
      [] OTHER -> 48 + DigitVal(c)

\* a < b on the strings spelled a and b (bytewise, a prefix first)
RECURSIVE BytesLess(_, _)
BytesLess(a, b) ==
    IF b = <<>> THEN FALSE
    ELSE IF a = <<>> THEN TRUE
    ELSE IF ByteOf(a[1]) # ByteOf(b[1]) THEN ByteOf(a[1]) < ByteOf(b[1])
    ELSE BytesLess(Tail(a), Tail(b))
StrLess(s, t) == BytesLess(Spell(s), Spell(t))

\* The sequences that hold each element of S once
Orderings(S) ==
    {s \in [1..Cardinality(S) -> S] :
        \A i, j \in 1..Cardinality(S) : i # j => s[i] # s[j]}

\* sort.Strings on the keys of a set
SortStrings(S) ==
    The({s \in Orderings(S) :
            \A i, j \in 1..Cardinality(S) : i < j => ~StrLess(s[j], s[i])})

\* t.Format(DateFormat), "2006-01-02"
FormatDate(t) ==
    The({Decimal(YearOf(n), 4) \o <<"-">> \o Decimal(MonthOf(n), 2)
            \o <<"-">> \o Decimal(DayOfMonth(n), 2) : n \in {DayOf(t)}})

\* t.Format(DateTimeFormat), "2006-01-02 15:04:05"; the time of day is
\* written in ticks
FormatDateTime(t) == FormatDate(t) \o <<" ">> \o Decimal(TodOf(t), 2)

\* CreateOutputData: the element of ProviderStats for one provider
ProviderStat(res, p) ==
    [provider |-> p,
     user_count |-> Cardinality(res.Providers[p].Users),
     users |-> SortStrings(res.Providers[p].Users),
     first_seen |-> FormatDate(res.Providers[p].FirstSeen),
     last_seen |-> FormatDate(res.Providers[p].LastSeen)]

\* CreateOutputData: the element of UserStats for one user
UserStat(res, u) ==
    [username |-> u,
     providers |-> SortStrings(res.Users[u].Providers),
     first_seen |-> FormatDate(res.Users[u].FirstSeen),
     last_seen |-> FormatDate(res.Users[u].LastSeen)]

\* MoreUsers with the comparison turned round
MoreUsers_Fewer(a, b) == a.user_count < b.user_count

\* the less function of the sort of ProviderStats, and of UserStats
MoreUsers(a, b) == a.user_count > b.user_count
UsernameLess(a, b) == StrLess(a.username, b.username)

\* sort.Slice on the provider stats, appended in the order of a range over
\* a map: the stats in an order in which none has more users than one
\* before it.  Stats with equal user counts may come out in either order
\* (the order of the range is not fixed, and sort.Slice is not stable).
SortProviderStats(S) ==
    {s \in Orderings(S) :
        \A i, j \in 1..Cardinality(S) : i < j => ~MoreUsers(s[j], s[i])}

\* sort.Slice on the user stats: ascending by username
SortUserStats(S) ==
    {s \in Orderings(S) :
        \A i, j \in 1..Cardinality(S) : i < j => ~UsernameLess(s[j], s[i])}

\* CreateOutputData: the documents it can return for one Result
CreateOutputData(res, tr) ==
    {[query_info |-> [days |-> tr.Days,
                      start_date |-> FormatDateTime(tr.StartDate),
                      end_date |-> FormatDateTime(tr.EndDate),
                      total_hits |-> res.TotalHits],
      summary |-> [total_users |-> Cardinality(DOMAIN res.Users),
                   total_providers |-> Cardinality(DOMAIN res.Providers)],
      provider_stats |-> ps,
      user_stats |-> us] :
        ps \in SortProviderStats({ProviderStat(res, p) :
                                     p \in DOMAIN res.Providers}),
        us \in SortUserStats({UserStat(res, u) : u \in DOMAIN res.Users})}

\* encoding/json, a string: quoted, with the quote and the backslash
\* escaped by a backslash and <, > and & written as \u00XX
EscapeChar(c) ==
    CASE c = "\"" -> <<"\\", "\"">>
      [] c = "\\" -> <<"\\", "\\">>
      [] c = "<" -> <<"\\", "u", "0", "0", "3", "c">>
      [] OTHER -> <<c>>
RECURSIVE EscapeAll(_)
EscapeAll(cs) ==
    IF cs = <<>> THEN <<>> ELSE EscapeChar(cs[1]) \o EscapeAll(Tail(cs))
MarshalString(cs) == <<"\"">> \o EscapeAll(cs) \o <<"\"">>
MarshalInt(n) == Decimal(n, 1)

\* json.MarshalIndent(outputData, "", "  "): the text of every string and
\* number of the document, in the document's structure
MarshalDoc(doc) ==
    [query_info |-> [days |-> MarshalInt(doc.query_info.days),
                     start_date |-> MarshalString(doc.query_info.start_date),
                     end_date |-> MarshalString(doc.query_info.end_date),
                     total_hits |-> MarshalInt(doc.query_info.total_hits)],
     summary |-> [total_users |-> MarshalInt(doc.summary.total_users),
                  total_providers |-> MarshalInt(doc.summary.total_providers)],
     provider_stats |->
        [i \in DOMAIN doc.provider_stats |->
            [provider |-> MarshalString(Spell(doc.provider_stats[i].provider)),
             user_count |-> MarshalInt(doc.provider_stats[i].user_count),
             users |-> [j \in DOMAIN doc.provider_stats[i].users |->
                          MarshalString(Spell(doc.provider_stats[i].users[j]))],
             first_seen |-> MarshalString(doc.provider_stats[i].first_seen),
             last_seen |-> MarshalString(doc.provider_stats[i].last_seen)]],
     user_stats |->
        [i \in DOMAIN doc.user_stats |->
            [username |-> MarshalString(Spell(doc.user_stats[i].username)),
             providers |-> [j \in DOMAIN doc.user_stats[i].providers |->
                              MarshalString(Spell(doc.user_stats[i].providers[j]))],
             first_seen |-> MarshalString(doc.user_stats[i].first_seen),
             last_seen |-> MarshalString(doc.user_stats[i].last_seen)]]]

\* encoding/json reading a string: the quotes are dropped, a backslash
\* escape gives the character it stands for
HexChar(h) == CASE h = <<"0", "0", "3", "c">> -> "<"
RECURSIVE Unescape(_)
Unescape(cs) ==
    IF cs = <<>> THEN <<>>
    ELSE IF cs[1] # "\\" THEN <<cs[1]>> \o Unescape(Tail(cs))
    ELSE IF cs[2] = "u"
         THEN <<HexChar(SubSeq(cs, 3, 6))>> \o Unescape(SubSeq(cs, 7, Len(cs)))
         ELSE <<cs[2]>> \o Unescape(SubSeq(cs, 3, Len(cs)))
UnmarshalString(t) == Unescape(SubSeq(t, 2, Len(t) - 1))
UnmarshalInt(t) == DecimalValue(t)

\* json.Unmarshal of the text of a document: every string as its bytes
UnmarshalDoc(js) ==
    [query_info |-> [days |-> UnmarshalInt(js.query_info.days),
                     start_date |-> UnmarshalString(js.query_info.start_date),
                     end_date |-> UnmarshalString(js.query_info.end_date),
                     total_hits |-> UnmarshalInt(js.query_info.total_hits)],
     summary |-> [total_users |-> UnmarshalInt(js.summary.total_users),
                  total_providers |-> UnmarshalInt(js.summary.total_providers)],
     provider_stats |->
        [i \in DOMAIN js.provider_stats |->
            [provider |-> UnmarshalString(js.provider_stats[i].provider),
             user_count |-> UnmarshalInt(js.provider_stats[i].user_count),
             users |-> [j \in DOMAIN js.provider_stats[i].users |->
                          UnmarshalString(js.provider_stats[i].users[j])],
             first_seen |-> UnmarshalString(js.provider_stats[i].first_seen),
             last_seen |-> UnmarshalString(js.provider_stats[i].last_seen)]],
     user_stats |->
        [i \in DOMAIN js.user_stats |->
            [username |-> UnmarshalString(js.user_stats[i].username),
             providers |-> [j \in DOMAIN js.user_stats[i].providers |->
                              UnmarshalString(js.user_stats[i].providers[j])],
             first_seen |-> UnmarshalString(js.user_stats[i].first_seen),
             last_seen |-> UnmarshalString(js.user_stats[i].last_seen)]]]

\* What the exporter reads from Result
Snapshot(res, format) ==
    [written |-> FALSE, format |-> format, users |-> res.Users,
     providers |-> res.Providers, totalHits |-> res.TotalHits,
     doc |-> NoDoc, json |-> NoDoc, parsed |-> NoDoc]

\* CreateOutputData builds the document and releases the read lock
DCreateOutputData ==
    /\ Running /\ dpc = "json_read"
    /\ \E doc \in CreateOutputData(result, timeRange) :
          report' = [Snapshot(result, "json") EXCEPT !.doc = doc]
    /\ mu' = [mu EXCEPT !.readers = @ - 1]
    /\ dpc' = "json_save"
    /\ UNCHANGED <<pvars, cancelled, chans, stats, wvars, avars, result,
                   currentDate, outcome, hist>>

\* SaveOutputToJSON: the file is written, or an I/O error is fatal
DSaveJSON ==
    /\ Running /\ dpc = "json_save"
    /\ \/ /\ report' = [report EXCEPT !.written = TRUE,
                                       !.json = MarshalDoc(report.doc)]
          /\ Exit("success")
       \/ UNCHANGED report /\ Exit("fatal_io")
    /\ UNCHANGED <<pvars, cancelled, chans, stats, wvars, avars, result, mu,
                   currentDate, hist>>

\* -format csv: ExportToCSV creates the users file and takes the read lock,
\* or fails on the directory or the file
DExportCSV ==
    /\ Running /\ dpc = "export"
    /\ \/ /\ ~mu.writer
          /\ mu' = [mu EXCEPT !.readers = @ + 1]
          /\ dpc' = "csv_read"
          /\ UNCHANGED outcome
       \/ Exit("fatal_io") /\ UNCHANGED mu
    /\ UNCHANGED <<pvars, cancelled, chans, stats, wvars, avars, result,
                   currentDate, report, hist>>

\* ExportToCSV: the users and providers rows are written under the read lock,
\* which is released on every path
DWriteCSV ==
    /\ Running /\ dpc = "csv_read"
    /\ mu' = [mu EXCEPT !.readers = @ - 1]
    /\ \/ /\ report' = Snapshot(result, "csv")
          /\ dpc' = "csv_summary"
          /\ UNCHANGED outcome
       \/ UNCHANGED report /\ Exit("fatal_io")
    /\ UNCHANGED <<pvars, cancelled, chans, stats, wvars, avars, result,
                   currentDate, hist>>

\* ExportToCSV: the summary file (len(result.Users), len(result.Providers),
\* result.TotalHits, read without the lock)
DSummaryCSV ==
    /\ Running /\ dpc = "csv_summary"
    /\ \/ report' = [report EXCEPT !.written = TRUE] /\ Exit("success")
       \/ UNCHANGED report /\ Exit("fatal_io")
    /\ UNCHANGED <<pvars, cancelled, chans, stats, wvars, avars, result, mu,
                   currentDate, hist>>

DriverStep ==
    \/ DParseArgs \/ DReadProperties \/ DStart
    \/ DProduce \/ DCloseJobs \/ DWait \/ DProcessDone \/ DCancelled
    \/ DCheckErr \/ DStoreHits \/ DSummary \/ DExportJSON \/ DCreateOutputData
    \/ DSaveJSON \/ DExportCSV \/ DWriteCSV \/ DSummaryCSV

\* ----------------------------------------------------------------- signal
\* The signal goroutine: SIGINT or SIGTERM arrives and cancel() is called
Cancel ==
    /\ Running /\ ~cancelled
    /\ cancelled' = TRUE
    /\ hist' = [hist EXCEPT
                  !.inFlightAtCancel = {w \in Workers : wpc[w] = "await_resp"},
                  !.cancelRunning =
                        (\E w \in Workers : wpc[w] \notin {"unstarted", "exited"})
                            \/ apc \notin {"unstarted", "done"},
                  !.cancelMidStream = apc = "consume"
                        /\ ((\E w \in Workers : wpc[w] \notin {"unstarted", "exited"})
                                \/ resultChan # <<>>)]
    /\ UNCHANGED <<pvars, chans, stats, wvars, avars, result, mu, dvars>>

Next ==
    \/ \E w \in Workers : WorkerStep(w)
    \/ AggregatorStep
    \/ DriverStep
    \/ Cancel

Spec == Init /\ [][Next]_vars

\* The goroutines are scheduled fairly: a worker, the result processor or
\* main that can take a step eventually takes one.  A request in flight
\* ends (with a response, an error, or the client's timeout).  No fairness
\* is asked of the signal.
FairSpec ==
    /\ Spec
    /\ \A w \in Workers : WF_vars(WorkerStep(w))
    /\ WF_vars(AggregatorStep)
    /\ WF_vars(DriverStep)

\* ----------------------------------------------- the aggregator on its own
\* ProcessResults run on a result queue that a test feeds with up to MaxFeed
\* entries and then closes, or with a cancellation; after its one finalize
\* pass, FinalizeResults is called once more with the same working maps.
FeedEntries ==
    {[Username |-> u, ServiceProvider |-> p, Timestamp |-> t] :
        u \in {"u1", "u2"}, p \in {"p1", "p2"}, t \in {Now - DayTicks, Now}}

FinalizeInit ==
    /\ param = NoParam
    /\ clock = Now
    /\ config = ValidConfig
    /\ InitRest
    /\ apc = "consume"

\* The test sends one more entry on resultChan
EFeed ==
    /\ Running /\ apc = "consume" /\ ~resultClosed
    /\ BagCardinality(hist.enqueued) < MaxFeed
    /\ Len(resultChan) < ResultChanCap
    /\ \E e \in FeedEntries :
         LET id == [job |-> 0, bi |-> BagCardinality(hist.enqueued) + 1,
                    pi |-> 0, di |-> 0]
         IN  /\ resultChan' = Append(resultChan,
                                     [Username |-> e.Username,
                                      ServiceProvider |-> e.ServiceProvider,
                                      Timestamp |-> e.Timestamp, id |-> id])
             /\ hist' = [hist EXCEPT !.enqueued = @ (+) SetToBag({id})]
    /\ UNCHANGED <<pvars, cancelled, jobs, jobsClosed, resultClosed, errChan,
                   stats, wvars, avars, result, mu, dvars>>

\* The test closes resultChan
EClose ==
    /\ Running /\ ~resultClosed
    /\ resultClosed' = TRUE
    /\ UNCHANGED <<pvars, cancelled, jobs, jobsClosed, resultChan, errChan,
                   stats, wvars, avars, result, mu, dvars, hist>>

\* FinalizeResults is called a second time with the working maps as the
\* first call found them
ARetryFinalize ==
    /\ Running /\ apc = "done"
    /\ hist.finalizes = 1
    /\ apc' = "finalize"
    /\ hist' = [hist EXCEPT !.firstPass = result]
    /\ UNCHANGED <<pvars, cancelled, chans, stats, wvars, working, finTodo,
                   result, mu, dvars>>

FinalizeNext ==
    \/ EFeed \/ EClose \/ Cancel
    \/ AConsume \/ AClosed \/ ACancelled
    \/ FLock \/ FUser \/ FUnlock
    \/ ARetryFinalize

FinalizeSpec == FinalizeInit /\ [][FinalizeNext]_vars

\* --------------------------------------- the aggregator called repeatedly
\* ProcessResults is called again, with a new result channel and the same
\* Result: the working maps are new, Result keeps what was finalized
ANextBatch ==
    /\ Running /\ apc = "done" /\ ~cancelled
    /\ resultChan = <<>> /\ resultClosed
    /\ hist.finalizes < MaxBatches
    /\ BagCardinality(hist.enqueued) < MaxFeed
    /\ apc' = "consume"
    /\ userMap' = EmptyMap
    /\ userFirstSeen' = EmptyMap /\ userLastSeen' = EmptyMap
    /\ providerFirstSeen' = EmptyMap /\ providerLastSeen' = EmptyMap
    /\ resultClosed' = FALSE
    /\ UNCHANGED <<pvars, cancelled, jobs, jobsClosed, resultChan, errChan,
                   stats, wvars, finTodo, result, mu, dvars, hist>>

MergeNext ==
    \/ EFeed \/ EClose
    \/ AConsume \/ AClosed
    \/ FLock \/ FUser \/ FUnlock
    \/ ANextBatch

MergeSpec == FinalizeInit /\ [][MergeNext]_vars

\* ------------------------------------------------- the resolver on its own
\* main up to the normalized range, for every time parameter and clock
\* reading of RangeParams and RangeClocks
RangeInit ==
    /\ param \in RangeParams
    /\ clock \in RangeClocks
    /\ config = ValidConfig
    /\ apc = "unstarted"
    /\ InitRest

RangeNext == DParseArgs

RangeSpec == RangeInit /\ [][RangeNext]_vars

\* ------------------------------------------------ the exporter on its own
\* main from the export on, for every settled Result over three users and
\* three providers.  A Result is settled by the (user, provider) pairs seen.
ReportUsers == {"u1", "a<", "aB"}
ReportProviders == {"p1", "p2", "q\""}
ResultOf(R) ==
    [Users |-> [u \in {r[1] : r \in R} |->
                  [Providers |-> {r[2] : r \in {x \in R : x[1] = u}},
                   FirstSeen |-> Now - DayTicks, LastSeen |-> Now]],
     Providers |-> [p \in {r[2] : r \in R} |->
                  [Users |-> {r[1] : r \in {x \in R : x[2] = p}},
                   FirstSeen |-> Now - DayTicks, LastSeen |-> Now]],
     TotalHits |-> Cardinality(R)]

ReportInit ==
    /\ param = NoParam
    /\ clock = Now
    /\ config = ValidConfig
    /\ timeRange = Normalize(DefaultTimeRange(Now))
    /\ cancelled = FALSE
    /\ jobs = <<>> /\ jobsClosed = TRUE
    /\ resultChan = <<>> /\ resultClosed = TRUE
    /\ errChan = <<>>
    /\ \E R \in SUBSET (ReportUsers \X ReportProviders) :
          /\ result = ResultOf(R)
          /\ stats = [ProcessedDays |-> 2, TotalHits |-> Cardinality(R)]
    /\ wpc = [w \in Workers |-> "exited"]
    /\ wst = [w \in Workers |-> InitWorker]
    /\ apc = "done"
    /\ userMap = EmptyMap
    /\ userFirstSeen = EmptyMap /\ userLastSeen = EmptyMap
    /\ providerFirstSeen = EmptyMap /\ providerLastSeen = EmptyMap
    /\ finTodo = {}
    /\ mu = [writer |-> FALSE, readers |-> 0]
    /\ dpc = "export"
    /\ currentDate = timeRange.EndDate + 1
    /\ outcome = "running"
    /\ report = NoReport
    /\ hist = InitHist

\* The file written is read back
RParse ==
    /\ outcome = "success" /\ report.format = "json" /\ report.written
    /\ report.parsed = NoDoc
    /\ report' = [report EXCEPT !.parsed = UnmarshalDoc(report.json)]
    /\ UNCHANGED <<pvars, cancelled, chans, stats, wvars, avars, result, mu,
                   dpc, currentDate, outcome, hist>>

\* The same Result is exported once more: CreateOutputData builds the
\* document again and SaveOutputToJSON writes it
RExportAgain ==
    /\ outcome = "success" /\ report.format = "json" /\ report.written
    /\ hist.exports < MaxExports
    /\ \E doc \in CreateOutputData(result, timeRange) :
          report' = [report EXCEPT !.doc = doc, !.json = MarshalDoc(doc),
                                   !.parsed = NoDoc]
    /\ hist' = [hist EXCEPT !.prevDoc = report.doc, !.exports = @ + 1]
    /\ UNCHANGED <<pvars, cancelled, chans, stats, wvars, avars, result, mu,
                   dpc, currentDate, outcome>>

ReportNext ==
    \/ DExportJSON \/ DCreateOutputData \/ DSaveJSON
    \/ RParse \/ RExportAgain

ReportSpec == ReportInit /\ [][ReportNext]_vars

\* ------------------------------------- a years range against a dead backend
\* main run as "-workers 1 1y" with no signal, while the backend is down:
\* every query ends in a transport error.  The clock is read on a day whose
\* last year holds a 29 February, and on one whose last year holds none.
YearsClocks ==
    {DayNumber(2025, 1, 1) * DayTicks, DayNumber(2023, 12, 31) * DayTicks}

YearsInit ==
    /\ param = YearsParam(1)
    /\ clock \in YearsClocks
    /\ config = ValidConfig
    /\ apc = "unstarted"
    /\ InitRest

\* DStart with workersCount = 1: one worker goroutine is started and added to
\* the WaitGroup.  The other workers of the model do not exist; they stand
\* as exited, which is what wg.Wait() sees of them.
DStartOne ==
    /\ Running /\ dpc = "start"
    /\ wpc' = [w \in Workers |-> IF w = 1 THEN "recv" ELSE "exited"]
    /\ apc' = "consume"
    /\ currentDate' = timeRange.StartDate
    /\ dpc' = "produce"
    /\ UNCHANGED <<pvars, cancelled, chans, stats, wst, working, finTodo,
                   result, mu, outcome, report, hist>>

\* WResponse when the backend is down: client.Do returns an error
WQueryFails(w) == WResponse(w) /\ wpc'[w] = "report"

YearsNext ==
    \/ DParseArgs \/ DReadProperties \/ DStartOne
    \/ DProduce \/ DCloseJobs \/ DWait \/ DProcessDone \/ DCheckErr
    \/ WRecv(1) \/ WOuterCtx(1) \/ WWorkerCtx(1)
    \/ WSendRequest(1) \/ WQueryFails(1) \/ WReport(1)
    \/ AClosed \/ FLock \/ FUnlock

YearsSpec == YearsInit /\ [][YearsNext]_vars

\* ------------------------------------------------ main run for one date
\* main run with yesterday's date as the time parameter
DateInit ==
    /\ param = DateParam(Today - 1)
    /\ clock = Now
    /\ config \in Configs
    /\ apc = "unstarted"
    /\ InitRest

DateSpec == DateInit /\ [][Next]_vars

\* ================================================================ claims
Ended == dpc = "exit"
AllExited == \A w \in Workers : wpc[w] = "exited"
\* The driver is past the query phase: the error check was passed
ExportPcs == {"store_hits", "summary", "export", "json_read", "json_save",
              "csv_read", "csv_summary"}
TakenBy(d) == IF d \in DOMAIN hist.taken THEN hist.taken[d] ELSE <<>>

\* C1: every job put on the task queue is received by at most one worker and
\* queried at most once, and only jobs that were put there are received; once
\* the workers have all returned in a run with no error report and no
\* cancellation, every job put on the queue was received by exactly one
\* worker and queried exactly once.
C1_EachJobOnce ==
    /\ \A d \in DOMAIN hist.taken :
         d \in hist.produced /\ Len(hist.taken[d]) <= 1
    /\ \A d \in BagToSet(hist.queries) :
         /\ CopiesIn(d, hist.queries) <= 1
         /\ Len(TakenBy(d)) = 1
    /\ (dpc \notin {"produce", "wait"} /\ ~cancelled /\ hist.reports = 0)
         => \A d \in hist.produced :
              Len(TakenBy(d)) = 1 /\ CopiesIn(d, hist.queries) = 1

\* C1 witness: a run of two jobs, received by two different workers, ended in
\* success with no cancellation
C1_Witness ==
    /\ outcome = "success" /\ ~cancelled
    /\ Cardinality(hist.produced) = 2
    /\ \E d1, d2 \in hist.produced :
         d1 # d2 /\ TakenBy(d1) = <<1>> /\ TakenBy(d2) = <<2>>

C3_FirstErrorWins ==
    /\ Len(errChan) <= 1
    /\ (hist.reports > 0 /\ hist.readErr = NoErr) => errChan = <<hist.firstErr>>
    /\ hist.reports = 0 => (errChan = <<>> /\ hist.readErr = NoErr)
    /\ hist.readErr # NoErr => (hist.readErr = hist.firstErr /\ errChan = <<>>)
    /\ \A w \in Workers :
         (Running /\ wpc[w] = "report") => ENABLED WReport(w)

\* C3 witness: two workers reported and the driver read the error of the first
C3_Witness ==
    /\ hist.reports = 2
    /\ outcome = "fatal"
    /\ hist.readErr = hist.firstErr
    /\ hist.readErr.err # "ctx"

\* What a set E of LogEntry values amounts to, user by user and provider by
\* provider
SetMin(S) == CHOOSE x \in S : \A y \in S : x <= y
SetMax(S) == CHOOSE x \in S : \A y \in S : x >= y
AggUsers(E) ==
    [u \in {e.Username : e \in E} |->
        LET Eu == {e \in E : e.Username = u}
        IN  [Providers |-> {e.ServiceProvider : e \in Eu},
             FirstSeen |-> SetMin({e.Timestamp : e \in Eu}),
             LastSeen |-> SetMax({e.Timestamp : e \in Eu})]]
AggProviders(E) ==
    [p \in {e.ServiceProvider : e \in E} |->
        LET Ep == {e \in E : e.ServiceProvider = p}
        IN  [Users |-> {e.Username : e \in Ep},
             FirstSeen |-> SetMin({e.Timestamp : e \in Ep}),
             LastSeen |-> SetMax({e.Timestamp : e \in Ep})]]

\* C4: a run in which cancellation fired while entries were still being
\* streamed, and whose aggregator consumed entries and finalized them, ends
\* with that partial Result, holding exactly the entries consumed, exported
\* in a written report.
C4_PartialExported ==
    (Ended /\ hist.cancelMidStream /\ hist.fed # {} /\ apc = "done")
        => /\ report.written
           /\ report.users = AggUsers(hist.fed)
           /\ report.providers = AggProviders(hist.fed)

\* C5: a run in which cancellation fired while a worker or the aggregator was
\* still running never ends with the success exit (it ends as
\* operation-cancelled).
C5_CancelNeverSuccess ==
    hist.cancelRunning => outcome # "success"

\* C6: nothing is put in the error-report slot on account of cancellation,
\* and no run ends as fatal on an error report that is ctx's error.
C6_CancelIsNoErrorReport ==
    /\ \A i \in 1..Len(errChan) : errChan[i].err # "ctx"
    /\ ~(outcome = "fatal" /\ hist.readErr.err = "ctx")

\* C7: the aggregator begins no finalize pass while it consumes, and exactly
\* one has begun once its loop has ended, by closure or by cancellation:
\* never none, never two.
C7_OneFinalizePass ==
    /\ hist.finalizes <= 1
    /\ apc \in {"consume", "finalize"} => hist.finalizes = 0
    /\ apc \in {"fin_loop", "done"} => hist.finalizes = 1

\* C7 witness: the loop ended on cancellation, before resultChan was closed,
\* with entries consumed, and the one pass is over
C7_Witness ==
    /\ apc = "done" /\ hist.finalizes = 1
    /\ cancelled /\ ~resultClosed
    /\ hist.fed # {}

DriverReads == dpc \in {"summary", "json_read", "csv_read", "csv_summary"}

\* C9: Result is either being built (the aggregator is in its finalize pass,
\* the exclusive lock is held, nobody reads) or settled (lock released): the
\* driver and the exporter read only after the pass is over, when Result
\* holds every consumed entry.
C9_BuiltOrSettled ==
    /\ mu.writer <=> apc = "fin_loop"
    /\ mu.writer => (mu.readers = 0 /\ ~DriverReads)
    /\ mu.readers > 0 <=> dpc \in {"json_read", "csv_read"}
    /\ DriverReads =>
         /\ apc = "done"
         /\ result.Users = AggUsers(hist.fed)
         /\ result.Providers = AggProviders(hist.fed)

\* C9 witness: the exporter holds the read lock on a non-empty settled Result
C9_Witness ==
    /\ dpc = "json_read" /\ mu.readers = 1
    /\ Cardinality(DOMAIN result.Users) = 2

ChanIds == [i \in 1..Len(resultChan) |-> resultChan[i].id]
SeqToBag(q) == [x \in {q[i] : i \in 1..Len(q)} |->
                  Cardinality({i \in 1..Len(q) : q[i] = x})]

\* C10: an entry is consumed at most once and only if it was sent; every
\* entry sent is either consumed or still in the queue; and in a run without
\* cancellation, when the aggregator's loop has ended every entry sent has
\* been consumed exactly once and the queue is empty.
C10_EntriesConsumedOnce ==
    /\ \A id \in BagToSet(hist.consumed) : CopiesIn(id, hist.consumed) = 1
    /\ hist.enqueued = hist.consumed (+) SeqToBag(ChanIds)
    /\ (~cancelled /\ apc # "consume")
         => (resultChan = <<>> /\ hist.consumed = hist.enqueued)

\* C10 witness: no cancellation, entries were still buffered when the driver
\* closed the queue, and the finalize pass is over
C10_Witness ==
    /\ ~cancelled /\ apc = "done"
    /\ hist.bufferedAtClose = 2
    /\ BagCardinality(hist.consumed) >= 3

\* C11: after the finalize pass, Result reflects exactly the entries that
\* were delivered to the aggregator: its users are the distinct usernames
\* among them, each user's providers are the providers that user appeared
\* with, its providers are the distinct providers among them, and each
\* provider's users are the distinct users that appeared with it; a report
\* made from it carries the same sets (user_count is the size of the set).
C11_ResultReflectsEntries ==
    LET E == hist.fed
        usersOf(p) == {e.Username : e \in {x \in E : x.ServiceProvider = p}}
        providersOf(u) == {e.ServiceProvider : e \in {x \in E : x.Username = u}}
    IN  /\ apc = "done" =>
             /\ DOMAIN result.Users = {e.Username : e \in E}
             /\ DOMAIN result.Providers = {e.ServiceProvider : e \in E}
             /\ \A u \in DOMAIN result.Users :
                  result.Users[u].Providers = providersOf(u)
             /\ \A p \in DOMAIN result.Providers :
                  result.Providers[p].Users = usersOf(p)
        /\ report.format # "none" =>
             /\ DOMAIN report.users = {e.Username : e \in E}
             /\ DOMAIN report.providers = {e.ServiceProvider : e \in E}
             /\ \A u \in DOMAIN report.users :
                  report.users[u].Providers = providersOf(u)
             /\ \A p \in DOMAIN report.providers :
                  Cardinality(report.providers[p].Users) = Cardinality(usersOf(p))

\* C11 witness: two users, each seen with one shared provider on two
\* different days, were delivered and finalized: two users, and the shared
\* provider has both users
C11_Witness ==
    /\ apc = "done"
    /\ DOMAIN result.Users = {"u1", "u2"}
    /\ result.Providers["p1"].Users = {"u1", "u2"}
    /\ Cardinality({DayOf(e.Timestamp) : e \in hist.fed}) = 2
    /\ report.written

\* C12: whenever the driver is about to send a job, the task queue has
\* room (the send never finds the queue full), and the jobs produced never
\* outnumber the capacity of the queue, timeRange.Days.
C12_ProductionNeverFindsQueueFull ==
    /\ (dpc = "produce" /\ currentDate < timeRange.EndDate)
         => Len(jobs) < timeRange.Days
    /\ dpc # "args" => Cardinality(hist.produced) <= timeRange.Days

\* The calendar days of the resolved range, first and last included
SpanDays == DayOf(timeRange.EndDate) - DayOf(timeRange.StartDate) + 1

\* C20: a day count d in 1..MaxDaysRange is accepted and, after
\* normalization, the range starts at midnight of the day d - 1 days before
\* today, ends at the last instant of today, spans d calendar days, and
\* Days = d.
C20_RelativeDays ==
    (dpc # "args" /\ param.form = "days" /\ param.n \in 1..MaxDaysRange)
        => /\ outcome = "running"
           /\ timeRange.StartDate = (DayOf(clock) - (param.n - 1)) * DayTicks
           /\ timeRange.EndDate = DayOf(clock) * DayTicks + (DayTicks - 1)
           /\ timeRange.Days = param.n
           /\ SpanDays = param.n

\* C20 witness: the largest day count, parsed on the day after a leap day
C20_Witness ==
    /\ dpc = "props"
    /\ param = DaysParam(MaxDaysRange)
    /\ DayOf(clock) = DayNumber(2024, 3, 1)
    /\ timeRange.Days = 3650

\* The driver has left the production loop (and closed the task queue)
ProductionOver == jobsClosed

\* The jobs in q tile the time from a to b: the first starts at a, each ends
\* where the next starts, none is longer than a day, and the last ends at b
Tiles(q, a, b) ==
    /\ Len(q) >= 1
    /\ q[1].StartTimestamp = a
    /\ \A i \in 1..(Len(q) - 1) : q[i].EndTimestamp = q[i + 1].StartTimestamp
    /\ \A i \in 1..Len(q) :
         /\ q[i].StartTimestamp < q[i].EndTimestamp
         /\ q[i].EndTimestamp - q[i].StartTimestamp <= DayTicks
    /\ q[Len(q)].EndTimestamp = b

\* One job per calendar day of the resolved range
OnePerDay(q) ==
    /\ Len(q) = SpanDays
    /\ \A n \in DayOf(timeRange.StartDate)..DayOf(timeRange.EndDate) :
         Cardinality({i \in 1..Len(q) : DayOf(q[i].Date) = n}) = 1

C14_EntriesCarryJobDate ==
    LET stamps == {StartOfDay(x.job) + TodOf(x.raw) : x \in hist.emitted}
        seen == {result.Users[u].FirstSeen : u \in DOMAIN result.Users}
                  \cup {result.Users[u].LastSeen : u \in DOMAIN result.Users}
                  \cup {result.Providers[p].FirstSeen : p \in DOMAIN result.Providers}
                  \cup {result.Providers[p].LastSeen : p \in DOMAIN result.Providers}
    IN  /\ \A x \in hist.emitted :
             /\ DayOf(x.entry.Timestamp) = DayOf(x.job)
             /\ TodOf(x.entry.Timestamp) = TodOf(x.raw)
             /\ x.job \in hist.produced
        /\ \A i \in 1..Len(resultChan) :
             \E x \in hist.emitted : x.entry = resultChan[i]
        /\ seen \subseteq stamps
        /\ \A t \in seen : StartOfDay(t) \in hist.produced

\* C14 witness: a daily bucket whose raw key falls on the day before its
\* job's date was sent, consumed and finalized, and its user's first-seen
\* lies on the job's date
C14_Witness ==
    /\ apc = "done"
    /\ \E x \in hist.emitted :
         /\ DayOf(x.raw) = DayOf(x.job) - 1
         /\ x.entry.Username \in DOMAIN result.Users
         /\ result.Users[x.entry.Username].FirstSeen
                = StartOfDay(x.job) + TodOf(x.raw)
         /\ DayOf(result.Users[x.entry.Username].LastSeen) = DayOf(x.job)

\* C15: a second finalize pass over the same working maps leaves Result as
\* the first pass left it, at every step of the second pass and at its end:
\* the user and provider sets, every user's providers, every provider's
\* users and every first-seen and last-seen are those of one pass.
C15_FinalizeIdempotent ==
    hist.finalizes = 2
        => /\ DOMAIN result.Users = DOMAIN hist.firstPass.Users
           /\ DOMAIN result.Providers = DOMAIN hist.firstPass.Providers
           /\ \A u \in DOMAIN result.Users :
                result.Users[u] = hist.firstPass.Users[u]
           /\ \A p \in DOMAIN result.Providers :
                result.Providers[p] = hist.firstPass.Providers[p]
           /\ result = hist.firstPass

\* C15 witness: the second pass is over; Result has two users who share a
\* provider, and a user seen at two different times
C15_Witness ==
    /\ hist.finalizes = 2 /\ apc = "done"
    /\ DOMAIN result.Users = {"u1", "u2"}
    /\ \E p \in DOMAIN result.Providers : result.Providers[p].Users = {"u1", "u2"}
    /\ \E u \in DOMAIN result.Users :
         result.Users[u].FirstSeen < result.Users[u].LastSeen

\* C16: once cancellation has fired, a worker sending on the result queue,
\* the driver in its production loop and the aggregator in its consume loop
\* can each take their step whatever the two queues hold (full or empty);
\* and, the goroutines being scheduled fairly, every worker returns, the
\* production loop ends and the aggregator finishes, unless the process
\* exits first.
C16_CancelUnwinds ==
    /\ [](cancelled /\ Running =>
            /\ \A w \in Workers : wpc[w] = "send" => ENABLED WSend(w)
            /\ dpc = "produce" /\ currentDate < timeRange.EndDate
                 => ENABLED DProduce
            /\ apc = "consume" => ENABLED AggregatorStep)
    /\ (cancelled ~> (~Running \/ (AllExited /\ jobsClosed /\ apc = "done")))

\* C16 witness: cancellation has fired, the aggregator has left its consume
\* loop, the result queue is full and a worker is at its send
C16_Witness ==
    /\ cancelled /\ Running
    /\ apc \in {"finalize", "fin_loop", "done"}
    /\ Len(resultChan) = ResultChanCap
    /\ \E w \in Workers : wpc[w] = "send"


\* C17: once the cancellation signal has fired it stays fired, and a worker
\* that is between two jobs (waiting on the task queue, or holding a job it
\* has just received and standing at the check that precedes Worker) never
\* goes on to process a job: it leaves the loop.  A worker standing at a send
\* on the result queue can then abandon the send without enqueuing, and the
\* aggregator standing at its receive can take the cancellation branch.
C17_NoNewJobAfterCancel ==
    /\ [][cancelled => cancelled']_vars
    /\ [][\A w \in Workers :
            cancelled /\ wpc[w] \in {"recv", "outer_ctx"}
                => wpc'[w] \in {"recv", "outer_ctx", "exited"}]_vars
    /\ [](cancelled /\ Running =>
            /\ \A w \in Workers :
                  wpc[w] = "send" => ENABLED (WSend(w) /\ resultChan' = resultChan)
            /\ apc = "consume" => ENABLED ACancelled)

\* A worker received a job, found the signal fired at the check that precedes
\* Worker and returned: the job was never queried and nothing was reported
C17_Witness ==
    /\ cancelled /\ hist.reports = 0
    /\ \E d \in DOMAIN hist.taken :
          /\ ~BagIn(d, hist.queries)
          /\ \E i \in 1..Len(hist.taken[d]) : wpc[hist.taken[d][i]] = "exited"


\* C18: with a malformed time parameter the run ends as a fatal input error
\* as soon as the parameter has been parsed, and in every state of such a
\* run no worker and no result processor has been started and no query has
\* been sent to the backend.
C18_MalformedTokenFailsEarly ==
    param \in BadParams =>
        /\ \A w \in Workers : wpc[w] = "unstarted"
        /\ apc = "unstarted"
        /\ hist.queries = EmptyBag
        /\ dpc \in {"args", "exit"}
        /\ dpc = "exit" => outcome = "fatal_input"

\* The parameter "abc" was parsed and the run has ended
C18_Witness ==
    /\ param.tok = <<"a", "b", "c">>
    /\ outcome = "fatal_input" /\ dpc = "exit"

\* A readable properties file in which a required key has no line or an
\* empty value
MissingKey(cfg) ==
    cfg.readable /\ \E k \in PropKeys : cfg.lines[k] \in {NoLine, <<>>}

\* C19: when a required key is missing or empty, ReadProperties returns
\* ErrMissingConfiguration; the run ends as fatal once main has read the
\* properties (or earlier, on a malformed time parameter), and in every state
\* of such a run no worker and no result processor has been started and no
\* query has been sent to the backend.
C19_MissingKeyIsFatal ==
    MissingKey(config) =>
        /\ ReadProperties(config) = [ok |-> FALSE, err |-> "ErrMissingConfiguration"]
        /\ \A w \in Workers : wpc[w] = "unstarted"
        /\ apc = "unstarted"
        /\ hist.queries = EmptyBag
        /\ dpc \in {"args", "props", "exit"}
        /\ dpc = "exit" => outcome \in {"fatal_input", "fatal_config"}
        /\ outcome = "fatal_config" <=> hist.propsErr = "ErrMissingConfiguration"
        /\ dpc = "exit" /\ param \notin BadParams => outcome = "fatal_config"

\* A well-formed run whose properties lack one key ended at ReadProperties
C19_Witness ==
    /\ MissingKey(config) /\ param \notin BadParams
    /\ \E k \in PropKeys : config.lines[k] = <<"v">>
    /\ outcome = "fatal_config"
    /\ hist.propsErr = "ErrMissingConfiguration"


\* C21: a calendar-year token yYYYY with YYYY in 2000..2100 is accepted with
\* Days = 366 when YYYY is divisible by 4 and not by 100, or divisible by
\* 400, and Days = 365 otherwise; the range is the whole of that year, and
\* Days is the number of calendar days it spans.
C21_CalendarYearDays ==
    (dpc # "args" /\ param.form = "year" /\ param.n \in 2000..2100)
        => /\ outcome = "running"
           /\ timeRange.Days \in {365, 366}
           /\ timeRange.Days = 366 <=>
                  ((param.n % 4 = 0 /\ param.n % 100 # 0) \/ param.n % 400 = 0)
           /\ timeRange.StartDate = DayNumber(param.n, 1, 1) * DayTicks
           /\ timeRange.EndDate = DayNumber(param.n + 1, 1, 1) * DayTicks - 1
           /\ SpanDays = timeRange.Days

\* C21 witness: the century year that is not a leap year
C21_Witness ==
    /\ dpc = "props"
    /\ param = YearParam(2100)
    /\ timeRange.Days = 365 /\ timeRange.SpecificYear


\* The document with every name as its bytes
DocBytes(doc) ==
    [doc EXCEPT
       !.provider_stats =
            [i \in DOMAIN @ |->
                [@[i] EXCEPT !.provider = Spell(@),
                             !.users = [j \in DOMAIN @ |-> Spell(@[j])]]],
       !.user_stats =
            [i \in DOMAIN @ |->
                [@[i] EXCEPT !.username = Spell(@),
                             !.providers = [j \in DOMAIN @ |-> Spell(@[j])]]]]

\* The sequence of byte strings s is strictly ascending
Ascending(s) == \A i, j \in DOMAIN s : i < j => BytesLess(s[i], s[j])

\* The elements of a sequence
Elems(s) == {s[i] : i \in DOMAIN s}

\* What C22 asks of a document d (names as bytes) made from the Result res
WellOrdered(d, res) ==
    /\ \A i, j \in DOMAIN d.provider_stats :
          i < j => d.provider_stats[i].user_count >= d.provider_stats[j].user_count
    /\ Ascending([i \in DOMAIN d.user_stats |-> d.user_stats[i].username])
    /\ \A i \in DOMAIN d.provider_stats :
          /\ Ascending(d.provider_stats[i].users)
          /\ d.provider_stats[i].user_count = Len(d.provider_stats[i].users)
    /\ \A i \in DOMAIN d.user_stats : Ascending(d.user_stats[i].providers)
    /\ d.summary.total_users = Cardinality(DOMAIN res.Users)
    /\ d.summary.total_providers = Cardinality(DOMAIN res.Providers)
    /\ Len(d.user_stats) = d.summary.total_users
    /\ Len(d.provider_stats) = d.summary.total_providers
    /\ {x.username : x \in Elems(d.user_stats)}
            = {Spell(u) : u \in DOMAIN res.Users}
    /\ {x.provider : x \in Elems(d.provider_stats)}
            = {Spell(p) : p \in DOMAIN res.Providers}
    /\ \A x \in Elems(d.provider_stats) : \A p \in DOMAIN res.Providers :
          x.provider = Spell(p)
              => Elems(x.users) = {Spell(u) : u \in res.Providers[p].Users}
    /\ \A x \in Elems(d.user_stats) : \A u \in DOMAIN res.Users :
          x.username = Spell(u)
              => Elems(x.providers) = {Spell(p) : p \in res.Users[u].Providers}

\* C22: the document CreateOutputData builds has its provider stats in
\* non-increasing order of user count, its user stats in strictly ascending
\* order of username, every user list and provider list ascending, and
\* summary counts equal to the numbers of users and providers of Result;
\* and the document read back from the JSON file is the document written,
\* with the same counts and orders.
C22_ReportOrdered ==
    /\ report.format = "json" => WellOrdered(DocBytes(report.doc), result)
    /\ report.parsed # NoDoc =>
          /\ report.parsed = DocBytes(report.doc)
          /\ WellOrdered(report.parsed, result)

\* C22 witness: a report read back in which the providers have 3, 2 and 1
\* users, and names with characters that the JSON text escapes
C22_Witness ==
    /\ report.parsed # NoDoc
    /\ Len(report.parsed.provider_stats) = 3
    /\ report.parsed.provider_stats[1].user_count = 3
    /\ report.parsed.provider_stats[2].user_count = 2
    /\ report.parsed.provider_stats[2].provider = <<"q", "\"">>
    /\ report.parsed.provider_stats[3].user_count = 1
    /\ report.parsed.user_stats[1].username = <<"a", "<">>
    /\ report.json.user_stats[1].username
            = <<"\"", "a", "\\", "u", "0", "0", "3", "c", "\"">>


\* C23: an export of a settled Result repeated on the same Result gives the
\* same provider stats and the same user stats, in the same order, as the
\* export before it.
C23_ExportsAgree ==
    hist.exports >= 1 =>
        /\ report.doc.provider_stats = hist.prevDoc.provider_stats
        /\ report.doc.user_stats = hist.prevDoc.user_stats


\* C24: a worker whose job has failed is at its error report with the error
\* in hand; its only step from there is the report, which takes no job and
\* enqueues no entry, and after it the worker has returned for good.
C24_FailedWorkerStops ==
    /\ [](\A w \in Workers : wst[w].err # "none" <=> wpc[w] = "report")
    /\ [][\A w \in Workers :
            /\ wpc[w] = "report" /\ wpc'[w] # "report"
                    => /\ wpc'[w] = "exited"
                       /\ jobs' = jobs /\ resultChan' = resultChan
                       /\ hist'.reports = hist.reports + 1
            /\ wpc[w] = "exited" => wpc'[w] = "exited"]_vars

\* The worker that reported a decode error has returned while a job was
\* still on the task queue, with no cancellation
C24_Witness ==
    /\ ~cancelled /\ jobs # <<>>
    /\ hist.firstErr.err = "decode"
    /\ \E w \in Workers : hist.firstErr.worker = w /\ wpc[w] = "exited"


\* C25: a worker's error report changes nothing for the other workers: it
\* leaves their positions and locals, the task queue and the cancellation
\* signal as they were.  While cancellation has not fired, a worker returns
\* only on its own error or when the task queue is closed and empty; after
\* a report a worker waiting for a job can still take one from a non-empty
\* queue and a worker with a job in flight can go on with it (its send
\* waits only for room in the result queue).  With fair scheduling every
\* worker then returns, unless cancellation fires or the process ends.
C25_SiblingErrorDoesNotStopOthers ==
    /\ [][hist'.reports # hist.reports =>
            /\ cancelled' = cancelled
            /\ jobs' = jobs /\ jobsClosed' = jobsClosed
            /\ \A v \in Workers :
                  wpc[v] # "report" => wpc'[v] = wpc[v] /\ wst'[v] = wst[v]]_vars
    /\ [][\A v \in Workers :
            (~cancelled /\ wpc[v] # "exited" /\ wpc'[v] = "exited")
                => (wpc[v] = "report" \/ (jobsClosed /\ jobs = <<>>))]_vars
    /\ [](hist.reports >= 1 /\ ~cancelled /\ Running =>
            \A v \in Workers :
               /\ wpc[v] = "recv" /\ jobs # <<>> => ENABLED WRecv(v)
               /\ wpc[v] = "send" /\ Len(resultChan) < ResultChanCap
                     => ENABLED WSend(v)
               /\ wpc[v] \notin {"unstarted", "recv", "send", "exited"}
                     => ENABLED WorkerStep(v))
    /\ ((hist.reports >= 1 /\ ~cancelled)
            ~> (cancelled \/ ~Running
                   \/ \A v \in Workers : wpc[v] = "exited"))

\* One worker reported a transport error and returned, with no cancellation,
\* and the other is completing a job whose entries it has sent
C25_Witness ==
    /\ ~cancelled /\ Running
    /\ hist.reports = 1 /\ hist.firstErr.err = "transport"
    /\ wpc[hist.firstErr.worker] = "exited"
    /\ \E v \in Workers :
          /\ v # hist.firstErr.worker
          /\ wpc[v] = "count"
          /\ \E e \in hist.emitted : e.job = wst[v].job.Date


\* C26: a request that was in flight when the cancellation signal fired
\* does not end with the cancellation's error: its worker leaves the wait
\* for the response with the response or with the request's own failure.
C26_InFlightQueryNotAborted ==
    [][\A w \in hist.inFlightAtCancel :
          (wpc[w] = "await_resp" /\ wpc'[w] # "await_resp")
              => ~(wpc'[w] = "report" /\ wst'[w].err = "ctx")]_vars


\* C27: the result queue never holds more than its capacity.  A started
\* worker that has not returned can take a step unless it waits for a job
\* on an empty, open task queue or, with no cancellation, stands at a send
\* on a full result queue; at a send it can step whenever the queue has
\* room.  The queue changes only by an entry appended at its end or its
\* first entry removed, and while cancellation has not fired a worker
\* leaves a send only by appending its entry: nothing is dropped.
C27_Backpressure ==
    /\ [](Len(resultChan) <= ResultChanCap)
    /\ [](Running => \A w \in Workers :
            /\ (wpc[w] \notin {"unstarted", "exited"} /\ ~ENABLED WorkerStep(w))
                  => \/ wpc[w] = "recv" /\ jobs = <<>> /\ ~jobsClosed
                     \/ wpc[w] = "send" /\ Len(resultChan) = ResultChanCap
                            /\ ~cancelled
            /\ (wpc[w] = "send" /\ Len(resultChan) < ResultChanCap)
                  => ENABLED WSend(w))
    /\ [][resultChan' # resultChan =>
            \/ resultChan # <<>> /\ resultChan' = Tail(resultChan)
            \/ Len(resultChan') = Len(resultChan) + 1
                  /\ SubSeq(resultChan', 1, Len(resultChan)) = resultChan]_vars
    /\ [][\A w \in Workers :
            (wpc[w] = "send" /\ ~cancelled
                  /\ (wpc'[w] # wpc[w] \/ wst'[w] # wst[w]))
                => resultChan' = Append(resultChan, MkEntry(wst[w]))]_vars

\* A worker stands at a send on a full result queue, with no cancellation
\* and no error, while the aggregator is consuming: it can take no step
C27_Witness ==
    /\ Running /\ ~cancelled /\ hist.reports = 0
    /\ apc = "consume"
    /\ Len(resultChan) = ResultChanCap
    /\ \E w \in Workers : wpc[w] = "send" /\ ~ENABLED WorkerStep(w)


\* The entries a response holds: for every username bucket with providers
\* and daily buckets, one per provider and daily bucket with doc_count # 0
RECURSIVE ExpectedEntries(_)
ExpectedEntries(bs) ==
    IF bs = <<>> THEN 0
    ELSE (IF bs[1].hasProviders /\ bs[1].hasDaily
          THEN Len(bs[1].providers)
                 * Cardinality({i \in DOMAIN bs[1].daily :
                                   bs[1].daily[i].doc_count # 0})
          ELSE 0)
         + ExpectedEntries(Tail(bs))

\* C28: a job that is counted (processed days and hits) is one whose work
\* was done: every entry its response holds was sent on the result queue.
\* A job cut short by cancellation adds to neither counter.
C28_CountedJobsAreWhole ==
    \A w \in Workers :
        wpc[w] = "count" =>
            Cardinality({e \in hist.emitted : e.job = wst[w].job.Date})
                = ExpectedEntries(wst[w].resp.buckets)


\* C29: when a finalize pass is over, every user and every provider in
\* Result has as first-seen the earliest and as last-seen the latest
\* timestamp among all entries consumed for it, in this call of the
\* aggregator and in those before; and no step takes a user or provider out
\* of Result, moves a first-seen later or moves a last-seen earlier.
C29_SeenRangeNeverNarrows ==
    /\ [](apc = "done" =>
            /\ DOMAIN result.Users = {e.Username : e \in hist.fed}
            /\ DOMAIN result.Providers = {e.ServiceProvider : e \in hist.fed}
            /\ \A u \in DOMAIN result.Users :
                  LET T == {e.Timestamp : e \in {x \in hist.fed : x.Username = u}}
                  IN  /\ result.Users[u].FirstSeen = SetMin(T)
                      /\ result.Users[u].LastSeen = SetMax(T)
            /\ \A p \in DOMAIN result.Providers :
                  LET T == {e.Timestamp :
                              e \in {x \in hist.fed : x.ServiceProvider = p}}
                  IN  /\ result.Providers[p].FirstSeen = SetMin(T)
                      /\ result.Providers[p].LastSeen = SetMax(T))
    /\ [][/\ \A u \in DOMAIN result.Users :
               /\ u \in DOMAIN result'.Users
               /\ result'.Users[u].FirstSeen <= result.Users[u].FirstSeen
               /\ result'.Users[u].LastSeen >= result.Users[u].LastSeen
          /\ \A p \in DOMAIN result.Providers :
               /\ p \in DOMAIN result'.Providers
               /\ result'.Providers[p].FirstSeen <= result.Providers[p].FirstSeen
               /\ result'.Providers[p].LastSeen >= result.Providers[p].LastSeen]_vars

\* C29 witness: a second pass has merged a user seen at one time only into
\* a Result that had that user over a wider range, and the range stayed
C29_Witness ==
    /\ hist.finalizes = 2 /\ apc = "done"
    /\ \E u \in DOMAIN userMap :
          /\ userFirstSeen[u] = userLastSeen[u]
          /\ result.Users[u].FirstSeen = userFirstSeen[u]
          /\ result.Users[u].LastSeen > userLastSeen[u]
          /\ \E p \in userMap[u] :
                result.Providers[p].LastSeen > providerLastSeen[p]


\* C30: a job is counted as done only if its response had every expected
\* aggregation key: the top-level aggregations with the username buckets,
\* and in every username bucket the provider and the daily buckets.  A
\* response lacking one makes the job fail.
C30_MissingKeyFailsJob ==
    \A w \in Workers :
        wpc[w] = "count" =>
            /\ wst[w].resp.hasAggs
            /\ \A i \in DOMAIN wst[w].resp.buckets :
                  /\ wst[w].resp.buckets[i].hasProviders
                  /\ wst[w].resp.buckets[i].hasDaily


\* C31: when main has parsed (or defaulted) and normalized the time range
\* without a fatal error, the range has StartDate < EndDate and Days >= 1;
\* the start is the first and the end the last instant of a day.
C31_RangeWellFormed ==
    (dpc # "args" /\ outcome = "running")
        => /\ timeRange.StartDate < timeRange.EndDate
           /\ timeRange.Days >= 1
           /\ TodOf(timeRange.StartDate) = 0
           /\ TodOf(timeRange.EndDate) = DayTicks - 1

\* C31 witness: a one-day range asked for at the last instant of a day,
\* where the parsed start and end are the same instant
C31_Witness ==
    /\ dpc = "props" /\ outcome = "running"
    /\ param = DaysParam(1)
    /\ TodOf(clock) = DayTicks - 1
    /\ DayOf(timeRange.StartDate) = DayOf(timeRange.EndDate)


\* C32: a calendar-year token with a year outside 2000..2100, a
\* relative-years token with a count outside 1..MaxYearsRange and a bare
\* integer outside 1..MaxDaysRange are rejected by the form they belong to
\* (the later forms are not tried: the range returned is untouched) and the
\* run ends as a fatal input error.  An accepted token resolves to one mode,
\* that of the first form it matches in the order calendar year, relative
\* years, relative days, specific date.
C32_OutOfRangeRejected ==
    (dpc # "args" /\ param.given) =>
        LET r == ParseTimeRange(param.tok, clock)
            rejectedAs(e) == /\ r = Reject(ZeroTimeRange, e)
                             /\ outcome = "fatal_input"
                             /\ timeRange = ZeroTimeRange
            flags == <<timeRange.SpecificYear, timeRange.SpecificDate>>
        IN  /\ (param.form = "year" /\ param.n \notin 2000..2100)
                  => rejectedAs("invalid year range")
            /\ (param.form = "years" /\ param.n \notin 1..MaxYearsRange)
                  => rejectedAs("invalid years range")
            /\ (param.form = "days" /\ param.n \notin 1..MaxDaysRange)
                  => rejectedAs("invalid number of days")
            /\ outcome = "running" =>
                  /\ r.err = "none"
                  /\ param.form = "year" =>
                        flags = <<TRUE, FALSE>> /\ timeRange.Year = param.n
                  /\ param.form = "years" =>
                        /\ flags = <<FALSE, FALSE>>
                        /\ timeRange.Days = 365 * param.n
                        /\ DayOf(timeRange.EndDate) = DayOf(clock)
                  /\ param.form = "days" =>
                        /\ flags = <<FALSE, FALSE>>
                        /\ timeRange.Days = param.n
                        /\ DayOf(timeRange.EndDate) = DayOf(clock)
                  /\ param.form = "date" =>
                        /\ flags = <<FALSE, TRUE>>
                        /\ timeRange.StartDate = param.n * DayTicks
                  /\ ~(timeRange.SpecificYear /\ timeRange.SpecificDate)

\* C32 witness: the calendar-year token y2101 was rejected
C32_Witness ==
    /\ dpc = "exit" /\ outcome = "fatal_input"
    /\ param = YearParam(2101)
    /\ timeRange = ZeroTimeRange


\* C33: with no cancellation the driver is never left blocked on a send to
\* the task queue after every worker has exited: whenever the production
\* loop has a job still to send and the workers have all returned, the
\* queue has room for it.
C33_NeverBlockedOnSend ==
    (/\ ~cancelled /\ outcome = "running" /\ dpc = "produce"
     /\ currentDate < timeRange.EndDate
     /\ AllExited)
        => Len(jobs) < timeRange.Days


\* C34: a run that has written its report and ended with the success exit
\* has queried every job successfully: the processed-day counter equals
\* the number of jobs produced.
C34_ReportCoversEveryJob ==
    (outcome = "success" /\ report.written)
        => stats.ProcessedDays = Len(hist.jobSeq)


\* C35: in specific-date mode at most one job is produced, and every job
\* produced and every query issued is for the requested date, none for the
\* day that follows it.
C35_DateModeOneJob ==
    param.form = "date" =>
        /\ Len(hist.jobSeq) <= 1
        /\ \A i \in 1..Len(hist.jobSeq) : DayOf(hist.jobSeq[i].Date) = param.n
        /\ \A d \in BagToSet(hist.queries) : DayOf(d) = param.n


\* C36: in every state, and already in those of a run with no
\* cancellation, the processed-day counter is at most the Days of the
\* resolved range.
C36_ProcessedWithinDays ==
    ~cancelled => stats.ProcessedDays <= timeRange.Days


\* C37: resultChan is closed once, by main at close(resultChan) after
\* wg.Wait(), when every worker has returned; once closed it stays closed
\* and nothing more is sent on it.
C37_ClosedOnceAfterWorkers ==
    [][/\ (resultClosed' /\ ~resultClosed)
            => /\ dpc = "wait" /\ dpc' = "wait_proc"
               /\ AllExited
               /\ hist.resultCloses = 0 /\ hist'.resultCloses = 1
       /\ resultClosed
            => /\ resultClosed'
               /\ hist'.resultCloses = 1
               /\ hist'.enqueued = hist.enqueued
               /\ Len(resultChan') <= Len(resultChan)
               /\ \A w \in Workers : wpc'[w] = "exited"]_vars

\* C37 witness: the queue was closed with entries of two workers' jobs
\* still buffered in it
C37_Witness ==
    /\ resultClosed /\ AllExited
    /\ hist.resultCloses = 1
    /\ Len(resultChan) = 2
    /\ resultChan[1].id.job # resultChan[2].id.job


\* C38: after a finalize pass the two indexes of Result mirror each other:
\* a provider is among a user's providers exactly if the user is among that
\* provider's users; and no user is left without a provider, no provider
\* without a user.
C38_IndexesMirror ==
    apc = "done" =>
        /\ \A u \in DOMAIN result.Users :
              /\ result.Users[u].Providers # {}
              /\ \A p \in result.Users[u].Providers :
                    /\ p \in DOMAIN result.Providers
                    /\ u \in result.Providers[p].Users
        /\ \A p \in DOMAIN result.Providers :
              /\ result.Providers[p].Users # {}
              /\ \A u \in result.Providers[p].Users :
                    /\ u \in DOMAIN result.Users
                    /\ p \in result.Users[u].Providers

\* C38 witness: a second pass added a provider to a user Result already
\* had, and that user shares its first provider with another user
C38_Witness ==
    /\ hist.finalizes = 2 /\ apc = "done"
    /\ \E u \in DOMAIN userMap :
          /\ Cardinality(userMap[u]) = 1
          /\ Cardinality(result.Users[u].Providers) = 2
          /\ \E p \in result.Users[u].Providers \ userMap[u] :
                Cardinality(result.Providers[p].Users) = 2


\* C39: after a finalize pass every user and every provider of Result has
\* FirstSeen <= LastSeen.
C39_FirstBeforeLast ==
    apc = "done" =>
        /\ \A u \in DOMAIN result.Users :
              result.Users[u].FirstSeen <= result.Users[u].LastSeen
        /\ \A p \in DOMAIN result.Providers :
              result.Providers[p].FirstSeen <= result.Providers[p].LastSeen

\* C39 witness: a second pass saw a user and a provider, both already in
\* Result, at one later time only; Result keeps the earlier first-seen
C39_Witness ==
    /\ hist.finalizes = 2 /\ apc = "done"
    /\ \E u \in DOMAIN userMap :
          /\ userFirstSeen[u] = userLastSeen[u]
          /\ result.Users[u].FirstSeen < userFirstSeen[u]
          /\ result.Users[u].LastSeen = userLastSeen[u]
          /\ \E p \in userMap[u] :
                /\ result.Providers[p].FirstSeen < providerFirstSeen[p]
                /\ result.Providers[p].LastSeen = providerLastSeen[p]

====
